---- MODULE Spec2Model ----
(***************************************************************************)
(* Model of the tick-based generation engine of the city simulation:      *)
(*   - CitySimulation  (lib/simulator/CitySimulation.js, src/unnamed/     *)
(*     part_001): start / stop / getDataAndAdvance / getCurrentSnapshot   *)
(*     and the single-flight tick generateNextHourData;                   *)
(*   - EventsManager   (src/lib/simulator/EventsManager.js);              *)
(*   - TrafficSimulator(src/lib/simulators/TrafficSimulator.js);          *)
(*   - WeatherSimulator(src/lib/simulator/WeatherSimulator.js): the        *)
(*     mapping of the dataset's condition strings.                         *)
(*                                                                         *)
(* JavaScript runs one callback at a time: every action below is the code *)
(* that runs between two suspension points (an `await`), and other calls  *)
(* on the same instance may run at every suspension point.                *)
(*                                                                         *)
(* Time is an integer number of units, HourUnits units to the hour, local *)
(* time without daylight-saving shifts; a Date is the number of units     *)
(* since a local midnight (day 0, a Monday).                              *)
(***************************************************************************)
EXTENDS Integers, Sequences, FiniteSets, TLC

VARIABLES
  \* ---- CitySimulation (src/unnamed/part_001:8-39)
  env,               \* what the process finds on disk / in its environment
  isRunning,
  isInitialized,
  isGenerating,
  readyHourData,     \* the ready buffer: NULL or a snapshot
  currentTime,
  hourCounter,
  simulationHour,
  previousTraffic,
  calls,             \* the async calls made so far and where each is suspended
  lastResponse,      \* what the last synchronous API call returned or threw
  everStopped,       \* history: stop() has taken effect at least once
  stopped,           \* history: stop() has taken effect and no start() began since
  published,         \* history: number of snapshots written to the ready buffer
  startsCompleted,   \* history: number of start() calls that returned normally
  advanceHours,      \* history: the hours the last two successful advances returned
  lastPush,          \* history: how the last push to the sink ended, "none" before
  foundryToken,      \* TRUE when the instance holds an access token of the sink
  foundryRetryCount,
  retryTimers,       \* pending setTimeout callbacks of initializeFoundryConnection
  retryCalls,        \* calls of initializeFoundryConnection made by such a callback
                     \* and suspended at the token request
  retryAttempts,     \* history: such calls made since the last accepted push
  secondsPerHour,
  \* ---- EventsManager (src/lib/simulator/EventsManager.js:5-25)
  em,                \* the EventsManager object
  now,               \* the currentTime its owner passes to it
  evHourCounter,     \* the owner's hourCounter
  evGenerated,       \* history: events generated by processEventsForHour so far
  evPhase,           \* "new" | "running"
  evView,            \* the events view the last tick returned, NULL before
  \* ---- TrafficSimulator (src/lib/simulators/TrafficSimulator.js:5-12)
  datazones,         \* the initialised zones
  trafficOut,        \* the last result of simulateNextHour, NULL before
  trafficTicks,
  \* ---- WeatherSimulator (src/lib/simulator/WeatherSimulator.js:10-21)
  weatherOut,        \* the last sample simulateForTime built, NULL before
  \* ---- the process: dataLoaders' caches and the instances started for a city
  cityDataCache,     \* TRUE when cityDataCache holds the city's zone topology
  cityEventsCache,   \* TRUE when cityEventsCache holds the city's event catalog
  fileLoads,         \* history: the successful reads of each static data file
  instances,         \* per instance: where its start() is, its weatherSim.isLoaded
  \* ---- the HTTP server (src/server.js)
  activeSimulations, \* the ids registered
  dataResponse,      \* the status the data endpoint answered last, 0 before
  processUp          \* FALSE once the process has exited

simVars == <<env, isRunning, isInitialized, isGenerating, readyHourData,
             currentTime, hourCounter, simulationHour, previousTraffic,
             calls, lastResponse, everStopped, stopped, published,
             startsCompleted, advanceHours, lastPush>>
sinkVars == <<foundryToken, foundryRetryCount, retryTimers, retryCalls, retryAttempts>>
evVars  == <<em, now, evHourCounter, evGenerated, evPhase, evView>>
trVars  == <<datazones, trafficOut, trafficTicks>>
procVars == <<cityDataCache, cityEventsCache, fileLoads, instances>>
srvVars == <<activeSimulations, dataResponse, processUp>>
vars    == <<simVars, sinkVars, secondsPerHour, evVars, trVars, weatherOut,
             procVars, srvVars>>

\* JavaScript null: NULL where an object is expected, NoDate where a Date is
NULL == [isNull |-> TRUE]
NoDate == 0 - 1

(***************************************************************************)
(* Time                                                                    *)
(***************************************************************************)
HourUnits == 2                       \* resolution of the clock
HoursPerDay == 24
DayUnits == HoursPerDay * HourUnits

AddHours(t, h) == t + h * HourUnits
getHours(t)    == (t \div HourUnits) % HoursPerDay
getDateKey(t)  == t \div DayUnits
\* Date.setHours(h, 0, 0, 0): same local day, h o'clock sharp
setHours(t, h) == getDateKey(t) * DayUnits + h * HourUnits
\* Date.getDay(): 0 = Sunday; day 0 of the model is a Monday
getDay(t)      == (getDateKey(t) + 1) % 7

Max(a, b) == IF a >= b THEN a ELSE b
Min(a, b) == IF a <= b THEN a ELSE b

(***************************************************************************)
(* CitySimulation                                                          *)
(***************************************************************************)
MaxCalls == 2      \* async calls (start() bodies, background ticks) per run
MaxHours == 3      \* cap on hourCounter

CallIds == 1..MaxCalls
NoCall  == [kind |-> "none", pc |-> "unused", targetTime |-> 0]
HasFree == \E c \in CallIds : calls[c].pc = "unused"
FreeId  == CHOOSE c \in CallIds :
             /\ calls[c].pc = "unused"
             /\ \A d \in CallIds : d < c => calls[d].pc # "unused"

\* positions of a call inside generateNextHourData, past its guard
InTick == {"awaitWeather", "awaitTraffic", "awaitPush"}
ticksInFlight == {c \in CallIds : calls[c].pc \in InTick}

\* new Date() at construction: late evening of day 0, on and off the hour
InitTimes == {AddHours(0, 22), AddHours(0, 23) + 1}

\* no hour returned yet
NoHour == 0 - 1

\* WeatherSimulator.initialize(): a load failure is caught and leaves the
\* engine without baseHistoricalDate
weatherInitialize(dataOk) ==
  [isLoaded |-> dataOk, baseHistoricalDate |-> IF dataOk THEN 0 ELSE NoDate]

\* WeatherSimulator.simulateForTime(t): baseHistoricalDate.getTime() is
\* evaluated before the try block and throws a TypeError on null; inside the
\* try a missing record falls back to a synthesized sample
simulateForTime(ws, t) ==
  IF ws.baseHistoricalDate = NoDate
  THEN [threw |-> TRUE, simulation_time |-> t]
  ELSE [threw |-> FALSE, simulation_time |-> t]

\* how a push to the sink ends: accepted, an error or timeout, or a 401/403
\* followed by a re-authentication
PushOutcomes == {"ok", "error", "authError"}

\* an API call that threw, or (op "none") no call yet
failure(op, what) == [op |-> op, status |-> what]

maxFoundryRetries == 3
defaultSecondsPerHour == 10

\* what the process finds around it: the sink configuration in its environment
\* variables (foundryConfig), whether the sink's token endpoint accepts these
\* credentials (foundryAuth), and the data files on disk
Envs == {e \in [foundryConfig : BOOLEAN, foundryAuth : BOOLEAN, weatherData : BOOLEAN,
                datazonesFile : BOOLEAN, eventsFile : BOOLEAN] :
           e.foundryAuth => e.foundryConfig}

MaxInstances == 2       \* instances started for the same city in one process

\* the module-level state when the process has started: empty caches, an
\* empty registry, instances constructed and not started
InitProc ==
  /\ cityDataCache = FALSE
  /\ cityEventsCache = FALSE
  /\ fileLoads = [datazones |-> 0, events |-> 0, weather |-> 0]
  /\ instances = [i \in 1..MaxInstances |-> [pc |-> "new", isLoaded |-> FALSE]]
  /\ activeSimulations = {}
  /\ dataResponse = 0
  /\ processUp = TRUE

\* constructor
InitSim ==
  /\ InitProc
  /\ env \in Envs
  /\ foundryToken = FALSE
  /\ foundryRetryCount = 0
  /\ retryTimers = 0
  /\ retryCalls = 0
  /\ retryAttempts = 0
  /\ secondsPerHour = defaultSecondsPerHour
  /\ weatherOut = NULL
  /\ isRunning = FALSE
  /\ isInitialized = FALSE
  /\ isGenerating = FALSE
  /\ readyHourData = NULL
  /\ currentTime \in InitTimes
  /\ hourCounter = 0
  /\ simulationHour = 9
  /\ previousTraffic = NULL
  /\ calls = [c \in CallIds |-> NoCall]
  /\ lastResponse = failure("none", "none")
  /\ everStopped = FALSE
  /\ stopped = FALSE
  /\ published = 0
  /\ startsCompleted = 0
  /\ advanceHours = <<NoHour, NoHour>>
  /\ lastPush = "none"

\* where a call goes when generateNextHourData returns / throws
Returned(kind) == IF kind = "start" THEN "genReturned" ELSE "done"
Threw(kind)    == IF kind = "start" THEN "genThrew" ELSE "failed"

\* generateNextHourData without its isGenerating guard
generateNextHourData_unguarded(c, kind) ==
  /\ hourCounter < MaxHours
  /\ isGenerating' = TRUE
  /\ currentTime' = AddHours(currentTime, 1)
  /\ hourCounter' = hourCounter + 1
  /\ simulationHour' = getHours(AddHours(currentTime, 1))
  /\ calls' = [calls EXCEPT ![c] = [kind |-> kind, pc |-> "awaitWeather",
                                    targetTime |-> AddHours(currentTime, 1)]]

\* generateNextHourData testing its guard only after it advanced the clock
generateNextHourData_lateGuard(c, kind) ==
  /\ hourCounter < MaxHours
  /\ currentTime' = AddHours(currentTime, 1)
  /\ hourCounter' = hourCounter + 1
  /\ simulationHour' = getHours(AddHours(currentTime, 1))
  /\ IF isGenerating
     THEN /\ calls' = IF kind = "start"
                      THEN [calls EXCEPT ![c] = [kind |-> kind, pc |-> Returned(kind),
                                                 targetTime |-> 0]]
                      ELSE calls
          /\ UNCHANGED isGenerating
     ELSE /\ isGenerating' = TRUE
          /\ calls' = [calls EXCEPT ![c] = [kind |-> kind, pc |-> "awaitWeather",
                                            targetTime |-> AddHours(currentTime, 1)]]

\* generateNextHourData, from the call to its first await: the guard, the
\* clock advance and the call of weatherSim.simulateForTime
generateNextHourData(c, kind) ==
  IF isGenerating
  THEN /\ calls' = IF kind = "start"
                   THEN [calls EXCEPT ![c] = [kind |-> kind, pc |-> Returned(kind),
                                              targetTime |-> 0]]
                   ELSE calls
       /\ UNCHANGED <<isGenerating, currentTime, hourCounter, simulationHour>>
  ELSE /\ hourCounter < MaxHours
       /\ isGenerating' = TRUE
       /\ currentTime' = AddHours(currentTime, 1)
       /\ hourCounter' = hourCounter + 1
       /\ simulationHour' = getHours(AddHours(currentTime, 1))
       /\ calls' = [calls EXCEPT ![c] = [kind |-> kind, pc |-> "awaitWeather",
                                         targetTime |-> AddHours(currentTime, 1)]]

\* the simulationData record of one tick
simulationData(c) ==
  [hour      |-> simulationHour,
   timestamp |-> calls[c].targetTime,
   weather   |-> [simulation_time |-> calls[c].targetTime],
   events    |-> [processed_at |-> calls[c].targetTime],
   traffic   |-> [simulation_time |-> calls[c].targetTime]]

\* start(): the guard, isRunning = true, the call of initializeTrafficSystem
start ==
  /\ HasFree
  /\ IF isRunning
     THEN UNCHANGED simVars
     ELSE /\ isRunning' = TRUE
          /\ stopped' = FALSE
          /\ calls' = [calls EXCEPT ![FreeId] = [kind |-> "start", pc |-> "initTraffic",
                                                 targetTime |-> 0]]
          /\ UNCHANGED <<env, isInitialized, isGenerating, readyHourData, currentTime,
                         hourCounter, simulationHour, previousTraffic, lastResponse, advanceHours, lastPush,
                         everStopped, published, startsCompleted>>

\* a catch block of start() that rethrows without resetting isRunning
startCatch_keepsRunning(c) ==
  /\ calls' = [calls EXCEPT ![c].pc = "failed"]
  /\ UNCHANGED <<env, isRunning, isInitialized, isGenerating, readyHourData,
                 currentTime, hourCounter, simulationHour, previousTraffic,
                 lastResponse, advanceHours, lastPush, everStopped, stopped,
                 published, startsCompleted>>

\* the catch block of start()
startCatch(c) ==
  /\ isRunning' = FALSE
  /\ calls' = [calls EXCEPT ![c].pc = "failed"]
  /\ UNCHANGED <<env, isInitialized, isGenerating, readyHourData, currentTime,
                 hourCounter, simulationHour, previousTraffic, lastResponse, advanceHours, lastPush,
                 everStopped, stopped, published, startsCompleted>>

startStep(c, to) ==
  /\ calls' = [calls EXCEPT ![c].pc = to]
  /\ UNCHANGED <<env, isRunning, isInitialized, isGenerating, readyHourData,
                 currentTime, hourCounter, simulationHour, previousTraffic,
                 lastResponse, advanceHours, lastPush, everStopped, stopped, published, startsCompleted>>

\* start() calling generateNextHourData
startCallsGenerate(c) ==
  /\ generateNextHourData(c, "start")
  /\ UNCHANGED <<env, isRunning, isInitialized, readyHourData, previousTraffic,
                 lastResponse, advanceHours, lastPush, everStopped, stopped, published, startsCompleted>>

\* start() resumes after `await this.initializeTrafficSystem()`
startAfterTraffic(c) ==
  /\ calls[c].pc = "initTraffic"
  /\ IF env.datazonesFile THEN startStep(c, "initEvents") ELSE startCatch(c)

\* start() resumes after `await this.initializeEventsSystem()`
startAfterEvents(c) ==
  /\ calls[c].pc = "initEvents"
  /\ IF env.eventsFile THEN startStep(c, "initWeather") ELSE startCatch(c)

\* start() resumes after `await this.weatherSim.initialize()` (never throws)
startAfterWeather(c) ==
  /\ calls[c].pc = "initWeather"
  /\ IF env.foundryConfig THEN startStep(c, "initFoundry") ELSE startCallsGenerate(c)

\* initializeFoundryConnection() resumes after its token request: the token is
\* stored, or the catch block counts the failure and sets a timer that calls
\* initializeFoundryConnection again
initializeFoundryConnection ==
  IF env.foundryAuth
  THEN /\ foundryToken' = TRUE
       /\ UNCHANGED <<foundryRetryCount, retryTimers>>
  ELSE /\ IF foundryRetryCount < maxFoundryRetries
          THEN /\ foundryRetryCount' = foundryRetryCount + 1
               /\ retryTimers' = retryTimers + 1
          ELSE UNCHANGED <<foundryRetryCount, retryTimers>>
       /\ UNCHANGED foundryToken

\* start() resumes after `await this.initializeFoundryConnection()` (never throws)
startAfterFoundry(c) ==
  /\ calls[c].pc = "initFoundry"
  /\ initializeFoundryConnection
  /\ UNCHANGED <<retryCalls, retryAttempts>>
  /\ startCallsGenerate(c)

\* the timer set by initializeFoundryConnection expires: its callback calls
\* initializeFoundryConnection, which runs to its token request
retryTimerFires ==
  /\ retryTimers > 0
  /\ retryTimers' = retryTimers - 1
  /\ retryCalls' = retryCalls + 1
  /\ retryAttempts' = retryAttempts + 1
  /\ UNCHANGED <<simVars, foundryToken, foundryRetryCount>>

\* a call of initializeFoundryConnection made by a timer resumes
retryCallResolves ==
  /\ retryCalls > 0
  /\ retryCalls' = retryCalls - 1
  /\ initializeFoundryConnection
  /\ UNCHANGED retryAttempts
  /\ UNCHANGED simVars

\* start() resumes after `await this.generateNextHourData()` returned
startFinish(c) ==
  /\ calls[c].pc = "genReturned"
  /\ isInitialized' = TRUE
  /\ startsCompleted' = startsCompleted + 1
  /\ calls' = [calls EXCEPT ![c].pc = "done"]
  /\ UNCHANGED <<env, isRunning, isGenerating, readyHourData, currentTime,
                 hourCounter, simulationHour, previousTraffic, lastResponse, advanceHours, lastPush,
                 everStopped, stopped, published>>

\* start() resumes after `await this.generateNextHourData()` threw
startGenerateThrew(c) ==
  /\ calls[c].pc = "genThrew"
  /\ startCatch(c)

\* generateNextHourData clearing its guard on the normal return only
generateFinally_noFinally(c, to) ==
  /\ isGenerating' = (to \in {"failed", "genThrew"})
  /\ calls' = [calls EXCEPT ![c] = [kind |-> @.kind, pc |-> to, targetTime |-> 0]]

\* the finally block of generateNextHourData, then its return or rethrow
generateFinally(c, to) ==
  /\ isGenerating' = FALSE
  /\ calls' = [calls EXCEPT ![c] = [kind |-> @.kind, pc |-> to, targetTime |-> 0]]

\* generateNextHourData resumes after `await this.weatherSim.simulateForTime`:
\* without the historical dataset simulateForTime throws (baseHistoricalDate
\* is null, WeatherSimulator.js:108); otherwise the events are processed and
\* trafficSim.simulateNextHour is called
generateAfterWeather(c) ==
  /\ calls[c].pc = "awaitWeather"
  /\ IF ~simulateForTime(weatherInitialize(env.weatherData), calls[c].targetTime).threw
     THEN /\ calls' = [calls EXCEPT ![c].pc = "awaitTraffic"]
          /\ UNCHANGED isGenerating
     ELSE generateFinally(c, Threw(calls[c].kind))
  /\ UNCHANGED <<env, isRunning, isInitialized, readyHourData, currentTime,
                 hourCounter, simulationHour, previousTraffic, lastResponse, advanceHours, lastPush,
                 everStopped, stopped, published, startsCompleted>>

\* generateNextHourData resumes after `await this.trafficSim.simulateNextHour`:
\* the state update and the write of the ready buffer; then the push to the
\* sink is awaited, or (no sink configured, or no token held) the function
\* returns
generateAfterTraffic(c) ==
  /\ calls[c].pc = "awaitTraffic"
  /\ previousTraffic' = simulationData(c).traffic
  /\ currentTime' = calls[c].targetTime
  /\ readyHourData' = simulationData(c)
  /\ published' = published + 1
  /\ IF env.foundryConfig /\ foundryToken
     THEN /\ calls' = [calls EXCEPT ![c].pc = "awaitPush"]
          /\ UNCHANGED isGenerating
     ELSE generateFinally(c, Returned(calls[c].kind))
  /\ UNCHANGED <<env, isRunning, isInitialized, hourCounter, simulationHour,
                 lastResponse, advanceHours, lastPush, everStopped, stopped, startsCompleted>>

\* a failed background tick that also takes the instance out of running
generateTrafficThrew_stops(c) ==
  /\ calls[c].pc = "awaitTraffic"
  /\ generateFinally(c, Threw(calls[c].kind))
  /\ isRunning' = FALSE
  /\ UNCHANGED <<env, isInitialized, readyHourData, currentTime,
                 hourCounter, simulationHour, previousTraffic, lastResponse,
                 advanceHours, lastPush, everStopped, stopped, published,
                 startsCompleted>>

\* generateNextHourData resumes after `await this.trafficSim.simulateNextHour`
\* (or the event processing before it) raised: catch, finally, rethrow
generateTrafficThrew(c) ==
  /\ calls[c].pc = "awaitTraffic"
  /\ generateFinally(c, Threw(calls[c].kind))
  /\ UNCHANGED <<env, isRunning, isInitialized, readyHourData, currentTime,
                 hourCounter, simulationHour, previousTraffic, lastResponse,
                 advanceHours, lastPush, everStopped, stopped, published,
                 startsCompleted>>

\* pushToFoundryStream() resumes after its request: an accepted record resets
\* the retry count, a 401/403 makes it await initializeFoundryConnection, any
\* other error is logged
pushToFoundryStream(outcome) ==
  /\ UNCHANGED retryCalls
  /\ IF outcome = "ok"
     THEN /\ foundryRetryCount' = 0
          /\ retryAttempts' = 0
          /\ UNCHANGED <<foundryToken, retryTimers>>
     ELSE IF outcome = "authError"
     THEN initializeFoundryConnection /\ UNCHANGED retryAttempts
     ELSE UNCHANGED <<foundryToken, foundryRetryCount, retryTimers, retryAttempts>>

\* generateNextHourData resumes after a push that lets its error escape
generateAfterPush_propagates(c) ==
  /\ calls[c].pc = "awaitPush"
  /\ \E outcome \in PushOutcomes :
       /\ lastPush' = outcome
       /\ pushToFoundryStream(outcome)
       /\ generateFinally(c, IF outcome = "ok" THEN Returned(calls[c].kind)
                             ELSE Threw(calls[c].kind))
  /\ UNCHANGED <<env, isRunning, isInitialized, readyHourData, currentTime,
                 hourCounter, simulationHour, previousTraffic, lastResponse,
                 advanceHours, everStopped, stopped, published, startsCompleted>>

\* generateNextHourData resumes after `await this.pushToFoundryStream`, which
\* catches its own errors and those of the re-authentication, and returns
generateAfterPush(c) ==
  /\ calls[c].pc = "awaitPush"
  /\ \E outcome \in PushOutcomes :
       /\ lastPush' = outcome
       /\ pushToFoundryStream(outcome)
  /\ generateFinally(c, Returned(calls[c].kind))
  /\ UNCHANGED <<env, isRunning, isInitialized, readyHourData, currentTime,
                 hourCounter, simulationHour, previousTraffic, lastResponse,
                 advanceHours, everStopped, stopped, published, startsCompleted>>

\* stop()
stop ==
  IF ~isRunning
  THEN UNCHANGED simVars
  ELSE /\ isRunning' = FALSE
       /\ isInitialized' = FALSE
       /\ readyHourData' = NULL
       /\ everStopped' = TRUE
       /\ stopped' = TRUE
       /\ advanceHours' = <<NoHour, NoHour>>
       /\ UNCHANGED <<env, isGenerating, currentTime, hourCounter, simulationHour,
                      previousTraffic, calls, lastResponse, lastPush, published,
                      startsCompleted>>

\* the values the server accepts for seconds_per_hour, a few of 1..3600
PacingValues == {1, defaultSecondsPerHour, 3600}

\* an updateTimeCompression that restarts the instance's buffer
updateTimeCompression_resets(seconds) ==
  /\ secondsPerHour' = seconds
  /\ readyHourData' = NULL
  /\ UNCHANGED <<env, isRunning, isInitialized, isGenerating, currentTime,
                 hourCounter, simulationHour, previousTraffic, calls,
                 lastResponse, advanceHours, lastPush, everStopped, stopped,
                 published, startsCompleted, sinkVars>>

\* updateTimeCompression(secondsPerHour)
updateTimeCompression(seconds) ==
  /\ secondsPerHour' = seconds
  /\ UNCHANGED <<simVars, sinkVars>>

\* the payload both getDataAndAdvance and getCurrentSnapshot build from a
\* snapshot; hour is read from the instance, the rest from the snapshot
payload(op, data, hour, running, startedTick) ==
  [op |-> op, status |-> "success", timestamp |-> data.timestamp, hour |-> hour,
   is_running |-> running, weather |-> data.weather, events |-> data.events,
   traffic |-> data.traffic, startedTick |-> startedTick]

\* getCurrentSnapshot() with a guard that tests isInitialized alone
getCurrentSnapshot_initOnly ==
  IF ~isInitialized
  THEN failure("getSnapshot", "NotReady")
  ELSE IF readyHourData = NULL
  THEN failure("getSnapshot", "TypeError")
  ELSE payload("getSnapshot", readyHourData, simulationHour, isRunning, FALSE)

\* getCurrentSnapshot(): what it returns or throws in the current state
getCurrentSnapshot ==
  IF ~isInitialized \/ readyHourData = NULL
  THEN failure("getSnapshot", "NotReady")
  ELSE payload("getSnapshot", readyHourData, simulationHour, isRunning, FALSE)

getSnapshot ==
  /\ lastResponse' = getCurrentSnapshot
  /\ UNCHANGED <<env, isRunning, isInitialized, isGenerating, readyHourData,
                 currentTime, hourCounter, simulationHour, previousTraffic, calls,
                 advanceHours, lastPush, everStopped, stopped, published,
                 startsCompleted>>

\* getDataAndAdvance(): returns the ready buffer and calls generateNextHourData
\* without awaiting it
getDataAndAdvance ==
  /\ IF ~isRunning
     THEN /\ lastResponse' = failure("advance", "NotRunning")
          /\ UNCHANGED <<isGenerating, currentTime, hourCounter, simulationHour, calls,
                         advanceHours>>
     ELSE IF ~isInitialized \/ readyHourData = NULL
     THEN /\ lastResponse' = failure("advance", "NotReady")
          /\ UNCHANGED <<isGenerating, currentTime, hourCounter, simulationHour, calls,
                         advanceHours>>
     ELSE /\ isGenerating \/ HasFree
          /\ generateNextHourData(FreeId, "tick")
          /\ lastResponse' = payload("advance", readyHourData, simulationHour',
                                     isRunning, ~isGenerating)
          /\ advanceHours' = <<advanceHours[2], simulationHour'>>
  /\ UNCHANGED <<env, isRunning, isInitialized, readyHourData, previousTraffic,
                 lastPush, everStopped, stopped, published, startsCompleted>>

(***************************************************************************)
(* EventsManager                                                           *)
(***************************************************************************)
minHoursInFuture == 48
maxHoursInFuture == 168
maxCompletedEventsToKeep == 50
maxEventsPerDay == 2
maxConcurrentEvents == 3
minimumEventGap == 4
minInitialEvents == 3            \* 3 + Math.floor(Math.random() * 3)
maxInitialEvents == 5
cleanupDays == 7                 \* dailyEventCounts entries kept for 7 days
forcedEveryHours == 24           \* generateMoreEvents every 24th tick
forcedBelow == 3                 \* ... when fewer than 3 events are scheduled

MaxTicks == 60          \* ticks of one EventsManager run
MaxGenTick == 6         \* the 10% chance lets a generation through in ticks 1..MaxGenTick only
MaxDrawOffset == 0      \* hoursInFuture is drawn from min .. min + MaxDrawOffset

\* the city's event catalog (data/events/<city>_events.json): two templates
cityEventsCatalog ==
  << [type |-> "festival", start_hour |-> 10, end_hour |-> 12, duration_hours |-> 2,
      impact_factor |-> 500, affected_datazones |-> <<1, 2>>],
     [type |-> "concert", start_hour |-> 19, end_hour |-> 22, duration_hours |-> 3,
      impact_factor |-> 0, affected_datazones |-> <<2>>] >>

\* the random draws of generateRandomEvent: the template and hoursInFuture
Draws == [tpl : 1..Len(cityEventsCatalog),
          hoursInFuture : {h \in minHoursInFuture..(maxHoursInFuture - 1) :
                             h <= minHoursInFuture + MaxDrawOffset}]

\* a fixed draw, where the draw is not used
d0 == [tpl |-> 1, hoursInFuture |-> minHoursInFuture]

SeqMap(Op(_), s) == [i \in 1..Len(s) |-> Op(s[i])]

RECURSIVE SeqsOf(_, _)
\* the sequences of length n over S
SeqsOf(S, n) == IF n = 0 THEN {<<>>}
                ELSE {Append(q, x) : q \in SeqsOf(S, n - 1), x \in S}

\* constructor, then initialize() loading the catalog
newEventsManager ==
  [activeEvents |-> <<>>, scheduledEvents |-> <<>>, completedEvents |-> <<>>,
   eventIdCounter |-> 1, cityEvents |-> cityEventsCatalog,
   dailyEventCounts |-> <<>>, lastEventTime |-> NoDate]

\* Map.get(key) || 0 ; the Map is a function from date keys to counts
countOn(m, key) == IF key \in DOMAIN m.dailyEventCounts
                   THEN m.dailyEventCounts[key] ELSE 0

generateRandomEvent(m, t, d) ==
  LET randomEventTemplate == m.cityEvents[d.tpl]
      targetDate     == AddHours(t, d.hoursInFuture)
      eventStartTime == setHours(targetDate, randomEventTemplate.start_hour)
      event == [id |-> m.eventIdCounter,
                type |-> randomEventTemplate.type,
                affected_datazones |-> randomEventTemplate.affected_datazones,
                impact_factor |-> randomEventTemplate.impact_factor,
                start_hour |-> randomEventTemplate.start_hour,
                end_hour |-> randomEventTemplate.end_hour,
                duration_hours |-> randomEventTemplate.duration_hours,
                scheduled_start_time |-> eventStartTime,
                actual_start_time |-> NoDate,
                actual_end_time |-> NoDate,
                status |-> "scheduled",
                \* history, not fields of the code's object:
                generated_at |-> t,
                statusLog |-> <<"scheduled">>]
      dateKey == getDateKey(t)
  IN [m EXCEPT !.scheduledEvents = Append(@, event),
               !.eventIdCounter = @ + 1,
               !.dailyEventCounts =
                  [k \in (DOMAIN @) \cup {dateKey} |->
                     IF k = dateKey THEN countOn(m, dateKey) + 1 ELSE @[k]],
               !.lastEventTime = t]

RECURSIVE generateEvents(_, _, _)
\* generateRandomEvent once per draw of ds, in order
generateEvents(m, t, ds) ==
  IF ds = <<>> THEN m
  ELSE generateEvents(generateRandomEvent(m, t, Head(ds)), t, Tail(ds))

\* generateInitialEvents, after initialize(): ds holds the 3..5 draws
generateInitialEvents(m, t, ds) == generateEvents(m, t, ds)

canGenerateNewEvent(m, t) ==
  /\ ~(countOn(m, getDateKey(t)) >= maxEventsPerDay)
  /\ ~(Len(m.activeEvents) >= maxConcurrentEvents)
  /\ (m.lastEventTime # NoDate =>
        ~((t - m.lastEventTime) < minimumEventGap * HourUnits))

\* the filter of activateScheduledEvents testing the hour of day alone
shouldActivate_hourOnly(event, t) ==
  getHours(t) = event.start_hour

shouldActivate(event, t) ==
  LET dayReached  == t >= event.scheduled_start_time
      hourMatches == getHours(t) = event.start_hour
  IN dayReached /\ hourMatches

activateEvent(event, t) ==
  [event EXCEPT !.actual_start_time = t,
                !.actual_end_time = AddHours(t, event.duration_hours),
                !.status = "active",
                !.statusLog = Append(@, "active")]

\* activateScheduledEvents without the removal from scheduledEvents
activateScheduledEvents_keeps(m, t) ==
  LET act(e)     == shouldActivate(e, t)
      start1(e)  == activateEvent(e, t)
      toActivate == SelectSeq(m.scheduledEvents, act)
      mark(e)    == IF shouldActivate(e, t) THEN activateEvent(e, t) ELSE e
  IN [m EXCEPT !.activeEvents = @ \o SeqMap(start1, toActivate),
               !.scheduledEvents = SeqMap(mark, @)]

activateScheduledEvents(m, t) ==
  LET act(e)     == shouldActivate(e, t)
      stay(e)    == ~shouldActivate(e, t)
      start1(e)  == activateEvent(e, t)
      toActivate == SelectSeq(m.scheduledEvents, act)
  IN [m EXCEPT !.activeEvents = @ \o SeqMap(start1, toActivate),
               !.scheduledEvents = SelectSeq(@, stay)]

\* the expiry test of moveExpiredEventsToCompleted with > for >=
isExpired_late(event, t) == event.actual_end_time # NoDate /\ t > event.actual_end_time

isExpired(event, t) == event.actual_end_time # NoDate /\ t >= event.actual_end_time

completeEvent(event) ==
  [event EXCEPT !.status = "completed", !.statusLog = Append(@, "completed")]

\* moveExpiredEventsToCompleted without the removal from activeEvents
moveExpiredEventsToCompleted_keepsActive(m, t) ==
  LET expired(e) == isExpired(e, t)
  IN [m EXCEPT !.completedEvents = @ \o SeqMap(completeEvent, SelectSeq(m.activeEvents, expired))]

moveExpiredEventsToCompleted(m, t) ==
  LET expired(e) == isExpired(e, t)
      live(e)    == ~isExpired(e, t)
  IN [m EXCEPT !.completedEvents = @ \o SeqMap(completeEvent, SelectSeq(m.activeEvents, expired)),
               !.activeEvents = SelectSeq(@, live)]

\* cleanupOldCompletedEvents cutting the list at its recent end
cleanupOldCompletedEvents_newest(m) ==
  IF Len(m.completedEvents) > maxCompletedEventsToKeep
  THEN [m EXCEPT !.completedEvents = SubSeq(@, 1, maxCompletedEventsToKeep)]
  ELSE m

\* cleanupOldCompletedEvents removing one event too many
cleanupOldCompletedEvents_oneMore(m) ==
  IF Len(m.completedEvents) > maxCompletedEventsToKeep
  THEN [m EXCEPT !.completedEvents =
          SubSeq(@, Len(@) - maxCompletedEventsToKeep + 2, Len(@))]
  ELSE m

cleanupOldCompletedEvents(m) ==
  IF Len(m.completedEvents) > maxCompletedEventsToKeep
  THEN [m EXCEPT !.completedEvents =
          SubSeq(@, Len(@) - maxCompletedEventsToKeep + 1, Len(@))]
  ELSE m

cleanupDailyEventCounts(m, t) ==
  LET cutoffKey == getDateKey(AddHours(t, 0 - cleanupDays * HoursPerDay))
  IN [m EXCEPT !.dailyEventCounts =
        [k \in {j \in DOMAIN @ : ~(j < cutoffKey)} |-> @[k]]]

\* processEventsForHour; d is the draw of a generation that the 10% chance
\* lets through, NULL when Math.random() >= eventGenerationChance
processEventsForHour(m, t, d) ==
  LET m1 == activateScheduledEvents(m, t)
      m2 == moveExpiredEventsToCompleted(m1, t)
      m3 == cleanupOldCompletedEvents(m2)
      m4 == cleanupDailyEventCounts(m3, t)
  IN IF canGenerateNewEvent(m4, t) /\ d # NULL
     THEN generateRandomEvent(m4, t, d)
     ELSE m4

\* generateMoreEvents; ds holds the 1..2 draws
generateMoreEvents(m, t, ds) ==
  IF Len(m.scheduledEvents) < forcedBelow
  THEN generateEvents(m, t, ds)
  ELSE m

\* Math.round(units / HourUnits): the hours in a time difference, half up
roundHours(units) == (2 * units + HourUnits) \div (2 * HourUnits)

\* timeUtils: hours until the scheduled start, never negative
calculateHoursUntilStart(event, t) ==
  IF event.scheduled_start_time # NoDate
  THEN Max(0, roundHours(event.scheduled_start_time - t))
  ELSE 0

\* timeUtils: hours until the actual end, never negative
calculateHoursRemaining(event, t) ==
  IF event.actual_end_time # NoDate
  THEN Max(0, roundHours(event.actual_end_time - t))
  ELSE IF getHours(t) <= event.end_hour THEN event.end_hour - getHours(t) ELSE 0

\* getAllEventsWithStatus: the three counts and the flat list, each entry
\* labelled by the list it is in; NoDate stands for null
\* a view whose list leaves the completed entries out
getAllEventsWithStatus_dropsCompleted(m, t) ==
  [active_count |-> Len(m.activeEvents),
   scheduled_count |-> Len(m.scheduledEvents),
   completed_count |-> Len(m.completedEvents),
   events |-> <<>>]

getAllEventsWithStatus(m, t) ==
  LET scheduledView(e) ==
        [id |-> e.id, status |-> "scheduled",
         scheduled_start_time |-> e.scheduled_start_time,
         actual_start_time |-> NoDate, actual_end_time |-> NoDate,
         hours_until_start |-> calculateHoursUntilStart(e, t),
         hours_remaining |-> NoDate]
      activeView(e) ==
        [id |-> e.id, status |-> "active",
         scheduled_start_time |-> e.scheduled_start_time,
         actual_start_time |-> e.actual_start_time,
         actual_end_time |-> e.actual_end_time,
         hours_until_start |-> 0,
         hours_remaining |-> calculateHoursRemaining(e, t)]
      completedView(e) ==
        [id |-> e.id, status |-> "completed",
         scheduled_start_time |-> e.scheduled_start_time,
         actual_start_time |-> e.actual_start_time,
         actual_end_time |-> e.actual_end_time,
         hours_until_start |-> NoDate,
         hours_remaining |-> 0]
  IN [active_count |-> Len(m.activeEvents),
      scheduled_count |-> Len(m.scheduledEvents),
      completed_count |-> Len(m.completedEvents),
      events |-> SeqMap(scheduledView, m.scheduledEvents)
                   \o SeqMap(activeView, m.activeEvents)
                   \o SeqMap(completedView, m.completedEvents)]

\* the counts of a view
viewCounts(view) ==
  [active_count |-> view.active_count, scheduled_count |-> view.scheduled_count,
   completed_count |-> view.completed_count]

allEvents(m) == m.scheduledEvents \o m.activeEvents \o m.completedEvents
Range(s) == {s[i] : i \in DOMAIN s}

InitEv ==
  /\ em = newEventsManager
  /\ now \in InitTimes
  /\ evHourCounter = 0
  /\ evGenerated = 0
  /\ evPhase = "new"
  /\ evView = NULL

\* CitySimulation.initializeEventsSystem: generateInitialEvents(currentTime)
evInitialize ==
  /\ evPhase = "new"
  /\ \E n \in minInitialEvents..maxInitialEvents :
       \E ds \in SeqsOf(Draws, n) :
          em' = generateInitialEvents(em, now, ds)
  /\ evPhase' = "running"
  /\ UNCHANGED <<now, evHourCounter, evGenerated, evView>>

\* one tick as generateNextHourData drives the EventsManager: the clock
\* advances an hour, processEventsForHour, and every 24th tick
\* generateMoreEvents
evTick ==
  /\ evPhase = "running"
  /\ evHourCounter < MaxTicks
  /\ LET t == AddHours(now, 1)
         k == evHourCounter + 1
     IN /\ now' = t
        /\ evHourCounter' = k
        /\ \E d \in {NULL} \cup (IF k <= MaxGenTick THEN Draws ELSE {}) :
             LET m1 == processEventsForHour(em, t, d)
             IN /\ d # NULL => m1.eventIdCounter > em.eventIdCounter
                /\ evGenerated' = evGenerated + (IF d # NULL THEN 1 ELSE 0)
                /\ evView' = getAllEventsWithStatus(m1, t)
                /\ IF k % forcedEveryHours = 0
                   THEN \E n \in 1..2 : \E ds \in SeqsOf(Draws, n) :
                          /\ (Len(m1.scheduledEvents) >= forcedBelow => ds = <<d0>>)
                          /\ em' = generateMoreEvents(m1, t, ds)
                   ELSE em' = m1
  /\ UNCHANGED evPhase

(***************************************************************************)
(* TrafficSimulator                                                        *)
(*                                                                         *)
(* Congestion values and multipliers are fixed-point numbers counted in    *)
(* thousandths (1.6 is 1600); a product is rounded down to the thousandth. *)
(* Per-street jitter and the vehicle estimate (Math.random, Math.log) are  *)
(* not part of the reported zone and city congestion and are left out.     *)
(***************************************************************************)
minCongestion == 100             \* Math.max(0.1, ...)
maxCongestion == 10000           \* Math.min(10.0, ...)
minBaseline == 300               \* Math.max(0.3, ...)
maxBaseline == 3000              \* Math.min(3.0, ...)
momentumPrevious == 300          \* momentum = 0.3
momentumFresh == 700             \* zoneCongestion * 0.7
windyAbove == 30                 \* weather.windSpeed > 30

MaxTrafficTicks == 2             \* ticks of one TrafficSimulator run

Times(x, m)  == (x * m) \div 1000
\* Math.round(x * 100) / 100 on thousandths
Round2(x)    == ((x + 5) \div 10) * 10
Lookup(table, key, default) == IF key \in DOMAIN table THEN table[key] ELSE default

RECURSIVE SumSeq(_)
SumSeq(s) == IF s = <<>> THEN 0 ELSE Head(s) + SumSeq(Tail(s))

ROAD_TYPE_WEIGHTS ==
  [primary |-> 100, secondary |-> 80, tertiary |-> 60, trunk |-> 120,
   motorway |-> 150, residential |-> 20, unclassified |-> 15, service |-> 10,
   footway |-> 0, cycleway |-> 0]
PEAK_HOUR_MULTIPLIERS ==
  [primary |-> 2500, secondary |-> 2200, tertiary |-> 1800, trunk |-> 2800,
   motorway |-> 3000, residential |-> 1300, unclassified |-> 1200, service |-> 1100]
AREA_MULTIPLIERS ==
  [major_transport_hub |-> 1800, commercial_arterial |-> 1600,
   mixed_development |-> 1400, dense_residential |-> 1200,
   suburban_residential |-> 1100, mixed_local |-> 1300]
WEEKEND_MULTIPLIERS ==
  [major_transport_hub |-> 700, commercial_arterial |-> 600,
   mixed_development |-> 800, dense_residential |-> 900,
   suburban_residential |-> 1100, mixed_local |-> 850]

\* the city's zone topology (data/datazones/<city>_datazones_with_streets.json)
datazoneData ==
  << [datazone_code |-> 1, street_count |-> 4, dominant_street_type |-> "motorway",
      street_type_counts |-> [motorway |-> 2, trunk |-> 1, residential |-> 1]],
     [datazone_code |-> 2, street_count |-> 10, dominant_street_type |-> "residential",
      street_type_counts |-> [residential |-> 8, service |-> 2]] >>

\* 0.8 + Math.random() * 0.4, at both ends of its range
RandomVariations == {800, 1199}

countOf(zone, roadType) == Lookup(zone.street_type_counts, roadType, 0)
totalCount(zone) ==
  LET c == zone.street_type_counts
      RECURSIVE sum(_)
      sum(S) == IF S = {} THEN 0
                ELSE LET k == CHOOSE x \in S : TRUE IN c[k] + sum(S \ {k})
  IN sum(DOMAIN c)

\* baseScore = 0.8 + sum of weight * proportion / 100, times the variation
calculateBaselineCongestion(zone, randomVariation) ==
  LET c == zone.street_type_counts
      totalStreets == IF zone.street_count # 0 THEN zone.street_count ELSE totalCount(zone)
      RECURSIVE score(_)
      score(S) == IF S = {} THEN 0
                  ELSE LET k == CHOOSE x \in S : TRUE
                       IN (Lookup(ROAD_TYPE_WEIGHTS, k, 20) * c[k] * 10) \div totalStreets
                          + score(S \ {k})
      baseScore == 800 + score(DOMAIN c)
  IN Max(minBaseline, Min(maxBaseline, Times(baseScore, randomVariation)))

determineAreaType(zone) ==
  LET totalStreets == totalCount(zone)
  IN IF (countOf(zone, "motorway") + countOf(zone, "trunk")) * 10 > totalStreets * 3
     THEN "major_transport_hub"
     ELSE IF (countOf(zone, "primary") + countOf(zone, "secondary")) * 10 > totalStreets * 4
     THEN "commercial_arterial"
     ELSE IF countOf(zone, "residential") * 10 > totalStreets * 6
     THEN (IF totalStreets > 50 THEN "dense_residential" ELSE "suburban_residential")
     ELSE "mixed_development"

\* initializeWithDatazones; rv[i] is zone i's random variation
initializeWithDatazones(data, rv) ==
  [i \in 1..Len(data) |->
     [datazone_code |-> data[i].datazone_code,
      dominant_street_type |-> data[i].dominant_street_type,
      baseline_congestion |-> calculateBaselineCongestion(data[i], rv[i]),
      area_type |-> determineAreaType(data[i])]]

getPeakMultiplierForArea(areaType, dominantRoadType) ==
  (Lookup(PEAK_HOUR_MULTIPLIERS, dominantRoadType, 1200)
     + Lookup(AREA_MULTIPLIERS, areaType, 1300)) \div 2

getWeekendMultiplierForArea(areaType) == Lookup(WEEKEND_MULTIPLIERS, areaType, 800)

\* event.impact_factor || fallback
impactOr(event, fallback) ==
  IF event.impact_factor = 0 THEN fallback ELSE event.impact_factor

\* impact of one event on the zone at index i (from 0) of its affected list
eventImpactAt(event, i) ==
  IF i = 0
  THEN 1000 + impactOr(event, 300)
  ELSE 1000 + Times(impactOr(event, 300), Max(300, 1000 - i * 100))

RECURSIVE zoneImpactFrom(_, _, _, _)
\* the Map entry of zone `code` after the events from index n on were applied
\* to the entry cur (0 when the Map has no entry): Math.max(get || 1.0, impact)
zoneImpactFrom(events, n, code, cur) ==
  IF n > Len(events) THEN cur
  ELSE LET e == events[n]
           RECURSIVE walk(_, _)
           walk(i, acc) ==
             IF i > Len(e.affected_datazones) THEN acc
             ELSE walk(i + 1,
                       IF e.affected_datazones[i] = code
                       THEN Max(IF acc = 0 THEN 1000 ELSE acc, eventImpactAt(e, i - 1))
                       ELSE acc)
       IN zoneImpactFrom(events, n + 1, code, walk(1, cur))

\* calculateZoneEventImpacts(events).get(code); 0 stands for no entry
calculateZoneEventImpacts(events, code) == zoneImpactFrom(events, 1, code, 0)

timeMultiplierAt(hour) ==
  IF hour >= 7 /\ hour <= 9 THEN 1600
  ELSE IF hour >= 16 /\ hour <= 18 THEN 1800
  ELSE IF hour >= 22 \/ hour <= 5 THEN 300
  ELSE IF hour >= 10 /\ hour <= 15 THEN 800
  ELSE 1000

weatherMultiplierOf(weather) ==
  LET base == IF weather.condition = "rainy" THEN 1400
              ELSE IF weather.condition = "snowy" THEN 2200
              ELSE IF weather.condition = "stormy" THEN 1800
              ELSE IF weather.condition = "sunny" THEN 950
              ELSE 1000
  IN IF weather.windSpeed > windyAbove THEN Times(base, 1200) ELSE base

calculateTrafficFactors(hour, weather, events) ==
  [timeMultiplier |-> timeMultiplierAt(hour),
   weatherMultiplier |-> weatherMultiplierOf(weather),
   eventsMultiplier |->
     1000 + SumSeq([i \in 1..Len(events) |-> Times(impactOr(events[i], 200), 100)])]

\* previousTrafficData.datazones.find(z => z.datazone_code === code)
findZone(previousTrafficData, code) ==
  LET hits == SelectSeq(previousTrafficData.datazones,
                        LAMBDA z : z.datazone_code = code)
  IN IF hits = <<>> THEN NULL ELSE Head(hits)

\* the clamp without its upper end
clampCongestion_noMin(x) == Max(minCongestion, x)

\* the clamp of a zone's congestion to the valid range
clampCongestion(x) == Max(minCongestion, Min(maxCongestion, x))

\* one zone of simulateNextHour: the unrounded clamped value and the report
simulateZone(zone, isWeekend, factors, events, previousTrafficData) ==
  LET afterTime ==
        IF ~isWeekend
        THEN Times(zone.baseline_congestion,
                   Times(factors.timeMultiplier,
                         getPeakMultiplierForArea(zone.area_type, zone.dominant_street_type)))
        ELSE Times(zone.baseline_congestion, getWeekendMultiplierForArea(zone.area_type))
      afterWeather == Times(afterTime, factors.weatherMultiplier)
      entry == calculateZoneEventImpacts(events, zone.datazone_code)
      zoneEventImpact == IF entry = 0 THEN 1000 ELSE entry
      fresh == Times(afterWeather, zoneEventImpact)
      prevZone == IF previousTrafficData = NULL THEN NULL
                  ELSE findZone(previousTrafficData, zone.datazone_code)
      blended == IF prevZone # NULL
                 THEN Times(fresh, momentumFresh)
                      + Times(prevZone.datazone_congestion, momentumPrevious)
                 ELSE fresh
      zoneCongestion == clampCongestion(blended)
  IN [datazone_code |-> zone.datazone_code,
      datazone_congestion |-> Round2(zoneCongestion),
      area_type |-> zone.area_type,
      congestion_trend |-> IF prevZone # NULL
                           THEN Round2(zoneCongestion - prevZone.datazone_congestion)
                           ELSE 0,
      \* not reported: the value the city totals are made of, and its parts
      unrounded |-> zoneCongestion,
      fresh |-> fresh,
      zoneEventImpact |-> zoneEventImpact]

simulateNextHour(zones, t, weather, events, previousTrafficData) ==
  LET hour == getHours(t)
      dayOfWeek == getDay(t)
      isWeekend == dayOfWeek = 0 \/ dayOfWeek = 6
      factors == calculateTrafficFactors(hour, weather, events)
      \* this.datazones.map(...), as an enumerated sequence
      updatedDatazones ==
        [i \in 1..Len(zones) |->
           simulateZone(zones[i], isWeekend, factors, events, previousTrafficData)] \o <<>>
      totalCongestion == SumSeq([i \in 1..Len(zones) |-> updatedDatazones[i].unrounded])
      averageCongestion == totalCongestion \div Len(zones)
  IN [congestion_level |-> Round2(averageCongestion),
      peak_hour |-> factors.timeMultiplier > 1500,
      weather_impact |-> Round2(factors.weatherMultiplier),
      events_impact |-> Round2(factors.eventsMultiplier),
      datazones |-> updatedDatazones,
      simulation_time |-> t,
      weekend_mode |-> isWeekend]

\* inputs of a tick: a weekday morning peak, a weekday night, a Saturday noon
TrafficTimes == {AddHours(0, 8), AddHours(0, 23), AddHours(0, 5 * HoursPerDay + 12)}
Weathers == {[condition |-> "sunny", windSpeed |-> 10],
             [condition |-> "partly_cloudy", windSpeed |-> 10],
             [condition |-> "snowy", windSpeed |-> 40]}
\* active events as the EventsManager hands them over, and one with an
\* extreme impact factor
hugeEvent == [type |-> "marathon", impact_factor |-> 50000, affected_datazones |-> <<2, 1>>]
ActiveEventLists == {<<>>, <<cityEventsCatalog[1]>>,
                     <<cityEventsCatalog[1], cityEventsCatalog[2]>>,
                     <<hugeEvent, cityEventsCatalog[1]>>}

InitTr ==
  /\ datazones = <<>>
  /\ trafficOut = NULL
  /\ trafficTicks = 0

\* CitySimulation.initializeTrafficSystem
trInitialize ==
  /\ datazones = <<>>
  /\ \E rv \in SeqsOf(RandomVariations, Len(datazoneData)) :
       datazones' = initializeWithDatazones(datazoneData, rv)
  /\ UNCHANGED <<trafficOut, trafficTicks>>

\* one tick: simulateNextHour with the previous result as previousTrafficData
trTick ==
  /\ datazones # <<>>
  /\ trafficTicks < MaxTrafficTicks
  /\ \E t \in TrafficTimes, w \in Weathers, evs \in ActiveEventLists :
       trafficOut' = simulateNextHour(datazones, t, w, evs, trafficOut)
  /\ trafficTicks' = trafficTicks + 1
  /\ UNCHANGED datazones

(***************************************************************************)
(* WeatherSimulator                                                        *)
(*                                                                         *)
(* A condition string of the historical dataset is a sequence of words; a  *)
(* keyword of mapConditionToSimulation occurs in a string when it occurs   *)
(* in one of its words.                                                    *)
(***************************************************************************)
\* the words of the dataset's condition strings
Words == {"Partly", "Clear", "Sunny", "Overcast", "Rain", "Snow", "Thunderstorm",
          "Fog", "Light", "cloudy", "rain", "showers"}

\* String.toLowerCase on one word
lowerWord(w) ==
  CASE w = "Partly" -> "partly" [] w = "Clear" -> "clear" [] w = "Sunny" -> "sunny"
    [] w = "Overcast" -> "overcast" [] w = "Rain" -> "rain" [] w = "Snow" -> "snow"
    [] w = "Thunderstorm" -> "thunderstorm" [] w = "Fog" -> "fog"
    [] w = "Light" -> "light" [] OTHER -> w

toLowerCase(str) == [i \in DOMAIN str |-> lowerWord(str[i])]

\* the keywords that are substrings of a word (case-sensitive)
keywordsIn(w) ==
  CASE w = "partly" -> {"partly"} [] w = "clear" -> {"clear"} [] w = "sunny" -> {"sunny"}
    [] w = "overcast" -> {"overcast"} [] w = "rain" -> {"rain"} [] w = "snow" -> {"snow"}
    [] w = "thunderstorm" -> {"thunder", "storm"} [] w = "cloudy" -> {"cloud"}
    [] OTHER -> {}

\* String.includes(keyword)
includes(str, keyword) == \E i \in DOMAIN str : keyword \in keywordsIn(str[i])

mapConditionToSimulation(conditions) ==
  LET conditionLower == toLowerCase(conditions)
  IN IF includes(conditionLower, "rain") THEN "rainy"
     ELSE IF includes(conditionLower, "snow") THEN "snowy"
     ELSE IF includes(conditionLower, "storm") \/ includes(conditionLower, "thunder")
          THEN "stormy"
     ELSE IF includes(conditionLower, "clear") \/ includes(conditionLower, "sunny")
          THEN "sunny"
     ELSE IF includes(conditionLower, "cloud") \/ includes(conditionLower, "overcast")
          THEN "cloudy"
     ELSE IF includes(conditionLower, "partly") THEN "partly_cloudy"
     ELSE "partly_cloudy"

\* the condition strings of the dataset: one or two words
MaxWords == 2
ConditionStrings == UNION {SeqsOf(Words, n) : n \in 1..MaxWords}

\* simulateForTime building its sample from a record of the dataset
simulationWeather(weatherData) ==
  [windSpeed      |-> weatherData.windSpeed,
   condition      |-> mapConditionToSimulation(weatherData.conditions),
   raw_conditions |-> weatherData.conditions]

\* one call of simulateForTime that finds a record in the dataset
weatherTick ==
  /\ \E conditions \in ConditionStrings :
       weatherOut' = simulationWeather([conditions |-> conditions, windSpeed |-> 10])
  /\ UNCHANGED <<simVars, sinkVars, secondsPerHour, evVars, trVars>>

(***************************************************************************)
(* The data path of a tick: weather, events, traffic                       *)
(***************************************************************************)
\* EventsManager.getActiveEvents
getActiveEvents(m) == m.activeEvents

\* the record of the historical dataset that simulateForTime finds for the
\* time t: a day of cloud in the morning, sun at midday and snow and wind in
\* the evening
weatherDataset(t) ==
  IF getHours(t) < 10 THEN [conditions |-> <<"Partly", "cloudy">>, windSpeed |-> 10]
  ELSE IF getHours(t) < 18 THEN [conditions |-> <<"Clear">>, windSpeed |-> 10]
  ELSE [conditions |-> <<"Light", "Snow">>, windSpeed |-> 40]

\* a tick that hands the traffic engine the events that were active before
\* this tick's lifecycle processing
generateTickData_staleEvents(m, zones, t, d, previousTrafficData) ==
  LET weather      == simulationWeather(weatherDataset(t))
      activeEvents == getActiveEvents(m)
      m1           == processEventsForHour(m, t, d)
  IN [weather |-> weather,
      em      |-> m1,
      traffic |-> simulateNextHour(zones, t, weather, activeEvents, previousTrafficData)]

\* generateNextHourData, its data: the weather for targetTime, then
\* processEventsForHour, then simulateNextHour with that weather, the events
\* now active and the previous traffic
generateTickData(m, zones, t, d, previousTrafficData) ==
  LET weather      == simulationWeather(weatherDataset(t))
      m1           == processEventsForHour(m, t, d)
      activeEvents == getActiveEvents(m1)
  IN [weather |-> weather,
      em      |-> m1,
      traffic |-> simulateNextHour(zones, t, weather, activeEvents, previousTrafficData)]

\* the ticks at which the 10% chance lets a generation through
CityGenTicks == {5}

\* one tick of generateNextHourData on the instance's engines: the clock
\* advances an hour, the tick's data are computed, and every 24th tick
\* generateMoreEvents
cityTick ==
  /\ evPhase = "running"
  /\ datazones # <<>>
  /\ evHourCounter < MaxTicks
  /\ LET t == AddHours(now, 1)
         k == evHourCounter + 1
     IN /\ now' = t
        /\ evHourCounter' = k
        /\ \E d \in {NULL} \cup (IF k \in CityGenTicks THEN Draws ELSE {}) :
             LET data == generateTickData(em, datazones, t, d, trafficOut)
             IN /\ d # NULL => data.em.eventIdCounter > em.eventIdCounter
                /\ evGenerated' = evGenerated + (IF d # NULL THEN 1 ELSE 0)
                /\ evView' = getAllEventsWithStatus(data.em, t)
                /\ trafficOut' = data.traffic
                /\ weatherOut' = data.weather
                /\ IF k % forcedEveryHours = 0
                   THEN \E n \in 1..2 : \E ds \in SeqsOf(Draws, n) :
                          /\ (Len(data.em.scheduledEvents) >= forcedBelow => ds = <<d0>>)
                          /\ em' = generateMoreEvents(data.em, t, ds)
                   ELSE em' = data.em
  /\ UNCHANGED <<evPhase, datazones, trafficTicks>>

(***************************************************************************)
(* The static data of a city: dataLoaders and WeatherSimulator.initialize  *)
(***************************************************************************)
InstanceIds == 1..MaxInstances

\* loadCityDatazones(cityId) called by initializeTrafficSystem of instance i:
\* the cached topology, or readFileSync, whose result is cached when it
\* succeeds and whose failure is rethrown and fails start()
loadCityDatazones(i) ==
  /\ instances[i].pc = "initTraffic"
  /\ IF cityDataCache
     THEN /\ instances' = [instances EXCEPT ![i].pc = "initEvents"]
          /\ UNCHANGED <<cityDataCache, fileLoads>>
     ELSE \E readOk \in BOOLEAN :
            IF readOk
            THEN /\ cityDataCache' = TRUE
                 /\ fileLoads' = [fileLoads EXCEPT !.datazones = @ + 1]
                 /\ instances' = [instances EXCEPT ![i].pc = "initEvents"]
            ELSE /\ instances' = [instances EXCEPT ![i].pc = "failed"]
                 /\ UNCHANGED <<cityDataCache, fileLoads>>
  /\ UNCHANGED cityEventsCache

\* loadCityEvents(cityId) called by EventsManager.initialize of instance i
loadCityEvents(i) ==
  /\ instances[i].pc = "initEvents"
  /\ IF cityEventsCache
     THEN /\ instances' = [instances EXCEPT ![i].pc = "initWeather"]
          /\ UNCHANGED <<cityEventsCache, fileLoads>>
     ELSE \E readOk \in BOOLEAN :
            IF readOk
            THEN /\ cityEventsCache' = TRUE
                 /\ fileLoads' = [fileLoads EXCEPT !.events = @ + 1]
                 /\ instances' = [instances EXCEPT ![i].pc = "initWeather"]
            ELSE /\ instances' = [instances EXCEPT ![i].pc = "failed"]
                 /\ UNCHANGED <<cityEventsCache, fileLoads>>
  /\ UNCHANGED cityDataCache

\* WeatherSimulator.initialize() of instance i: returns when this simulator
\* has loaded the dataset, else reads the file into this simulator's Map; a
\* failure is logged and start() goes on
weatherSimInitialize(i) ==
  /\ instances[i].pc = "initWeather"
  /\ IF instances[i].isLoaded
     THEN /\ instances' = [instances EXCEPT ![i].pc = "started"]
          /\ UNCHANGED fileLoads
     ELSE \E readOk \in BOOLEAN :
            /\ instances' = [instances EXCEPT ![i] = [pc |-> "started", isLoaded |-> readOk]]
            /\ fileLoads' = [fileLoads EXCEPT !.weather = @ + (IF readOk THEN 1 ELSE 0)]
  /\ UNCHANGED <<cityDataCache, cityEventsCache>>

\* start() of instance i, not running: a new instance, or one whose start()
\* failed or that was stopped
instanceStart(i) ==
  /\ instances[i].pc \in {"new", "failed", "stopped"}
  /\ instances' = [instances EXCEPT ![i].pc = "initTraffic"]
  /\ UNCHANGED <<cityDataCache, cityEventsCache, fileLoads>>

\* stop() of a started instance i
instanceStop(i) ==
  /\ instances[i].pc = "started"
  /\ instances' = [instances EXCEPT ![i].pc = "stopped"]
  /\ UNCHANGED <<cityDataCache, cityEventsCache, fileLoads>>

(***************************************************************************)
(* The HTTP server: the registry and the start, data and stop endpoints    *)
(***************************************************************************)
SimId == "sim_1"        \* the id the start endpoint generates

\* POST /api/simulations/start: the instance is constructed, registered and
\* started; start() is neither awaited nor given a catch handler
postStart ==
  /\ processUp
  /\ SimId \notin activeSimulations
  /\ \A c \in CallIds : calls[c] = NoCall
  /\ activeSimulations' = activeSimulations \cup {SimId}
  /\ start
  /\ UNCHANGED <<dataResponse, processUp>>

\* GET /api/simulations/:id/data: 404 for an id that is not registered, the
\* snapshot of getCurrentSnapshot(), or 202 "starting" when it throws its
\* "No simulation data available yet" error
getData ==
  /\ processUp
  /\ IF SimId \notin activeSimulations
     THEN /\ dataResponse' = 404
          /\ UNCHANGED simVars
     ELSE /\ getSnapshot
          /\ dataResponse' = IF getCurrentSnapshot.status = "success" THEN 200 ELSE 202
  /\ UNCHANGED <<activeSimulations, processUp>>

\* POST /api/simulations/:id/stop: stop() and removal from the registry
postStop ==
  /\ processUp
  /\ SimId \in activeSimulations
  /\ stop
  /\ activeSimulations' = activeSimulations \ {SimId}
  /\ UNCHANGED <<dataResponse, processUp>>

\* the promise of a start() that failed is rejected with no handler: the
\* runtime either logs a warning and goes on (no step), or ends the process
unhandledRejectionExits ==
  /\ processUp
  /\ \E c \in CallIds : calls[c].kind = "start" /\ calls[c].pc = "failed"
  /\ processUp' = FALSE
  /\ activeSimulations' = {}
  /\ UNCHANGED <<simVars, dataResponse>>

(***************************************************************************)
(* Specifications                                                          *)
(***************************************************************************)
\* the constructed objects, beside a sink that accepts the credentials whenever
\* one is configured
Init ==
  /\ InitSim /\ InitEv /\ InitTr
  /\ now = currentTime
  /\ env.foundryAuth = env.foundryConfig

\* one CitySimulation under every interleaving of its API calls
Next ==
  \/ start /\ UNCHANGED <<procVars, srvVars, sinkVars, secondsPerHour, weatherOut, evVars, trVars>>
  \/ stop /\ UNCHANGED <<procVars, srvVars, sinkVars, secondsPerHour, weatherOut, evVars, trVars>>
  \/ getSnapshot /\ UNCHANGED <<procVars, srvVars, sinkVars, secondsPerHour, weatherOut, evVars, trVars>>
  \/ getDataAndAdvance /\ UNCHANGED <<procVars, srvVars, sinkVars, secondsPerHour, weatherOut, evVars, trVars>>
  \/ \E c \in CallIds : startAfterTraffic(c) /\ UNCHANGED <<procVars, srvVars, sinkVars, secondsPerHour, weatherOut, evVars, trVars>>
  \/ \E c \in CallIds : startAfterEvents(c) /\ UNCHANGED <<procVars, srvVars, sinkVars, secondsPerHour, weatherOut, evVars, trVars>>
  \/ \E c \in CallIds : startAfterWeather(c) /\ UNCHANGED <<procVars, srvVars, sinkVars, secondsPerHour, weatherOut, evVars, trVars>>
  \/ \E c \in CallIds : startAfterFoundry(c) /\ UNCHANGED <<procVars, srvVars, secondsPerHour, weatherOut, evVars, trVars>>
  \/ \E c \in CallIds : startFinish(c) /\ UNCHANGED <<procVars, srvVars, sinkVars, secondsPerHour, weatherOut, evVars, trVars>>
  \/ \E c \in CallIds : startGenerateThrew(c) /\ UNCHANGED <<procVars, srvVars, sinkVars, secondsPerHour, weatherOut, evVars, trVars>>
  \/ \E c \in CallIds : generateAfterWeather(c) /\ UNCHANGED <<procVars, srvVars, sinkVars, secondsPerHour, weatherOut, evVars, trVars>>
  \/ \E c \in CallIds : generateAfterTraffic(c) /\ UNCHANGED <<procVars, srvVars, sinkVars, secondsPerHour, weatherOut, evVars, trVars>>
  \/ \E c \in CallIds : generateTrafficThrew(c) /\ UNCHANGED <<procVars, srvVars, sinkVars, secondsPerHour, weatherOut, evVars, trVars>>
  \/ \E c \in CallIds : generateAfterPush(c) /\ UNCHANGED <<procVars, srvVars, secondsPerHour, weatherOut, evVars, trVars>>
Spec == Init /\ [][Next]_vars

\* one CitySimulation configured with a sink whose token endpoint rejects the
\* credentials, under every interleaving of its API calls and its retry timers
InitSink ==
  /\ InitSim /\ InitEv /\ InitTr
  /\ now = currentTime
  /\ env = [foundryConfig |-> TRUE, foundryAuth |-> FALSE, weatherData |-> TRUE,
            datazonesFile |-> TRUE, eventsFile |-> TRUE]
NextSink ==
  \/ start /\ UNCHANGED <<procVars, srvVars, sinkVars, secondsPerHour, weatherOut, evVars, trVars>>
  \/ stop /\ UNCHANGED <<procVars, srvVars, sinkVars, secondsPerHour, weatherOut, evVars, trVars>>
  \/ getSnapshot /\ UNCHANGED <<procVars, srvVars, sinkVars, secondsPerHour, weatherOut, evVars, trVars>>
  \/ getDataAndAdvance /\ UNCHANGED <<procVars, srvVars, sinkVars, secondsPerHour, weatherOut, evVars, trVars>>
  \/ \E c \in CallIds : startAfterTraffic(c) /\ UNCHANGED <<procVars, srvVars, sinkVars, secondsPerHour, weatherOut, evVars, trVars>>
  \/ \E c \in CallIds : startAfterEvents(c) /\ UNCHANGED <<procVars, srvVars, sinkVars, secondsPerHour, weatherOut, evVars, trVars>>
  \/ \E c \in CallIds : startAfterWeather(c) /\ UNCHANGED <<procVars, srvVars, sinkVars, secondsPerHour, weatherOut, evVars, trVars>>
  \/ \E c \in CallIds : startAfterFoundry(c) /\ UNCHANGED <<procVars, srvVars, secondsPerHour, weatherOut, evVars, trVars>>
  \/ \E c \in CallIds : startFinish(c) /\ UNCHANGED <<procVars, srvVars, sinkVars, secondsPerHour, weatherOut, evVars, trVars>>
  \/ \E c \in CallIds : startGenerateThrew(c) /\ UNCHANGED <<procVars, srvVars, sinkVars, secondsPerHour, weatherOut, evVars, trVars>>
  \/ \E c \in CallIds : generateAfterWeather(c) /\ UNCHANGED <<procVars, srvVars, sinkVars, secondsPerHour, weatherOut, evVars, trVars>>
  \/ \E c \in CallIds : generateAfterTraffic(c) /\ UNCHANGED <<procVars, srvVars, sinkVars, secondsPerHour, weatherOut, evVars, trVars>>
  \/ \E c \in CallIds : generateTrafficThrew(c) /\ UNCHANGED <<procVars, srvVars, sinkVars, secondsPerHour, weatherOut, evVars, trVars>>
  \/ retryTimerFires /\ UNCHANGED <<procVars, srvVars, secondsPerHour, weatherOut, evVars, trVars>>
  \/ retryCallResolves /\ UNCHANGED <<procVars, srvVars, secondsPerHour, weatherOut, evVars, trVars>>
SpecSink == InitSink /\ [][NextSink]_vars

\* the token endpoint of the sink starts or ceases to accept the credentials
tokenEndpointChanges ==
  /\ env.foundryConfig
  /\ env' = [env EXCEPT !.foundryAuth = ~@]
  /\ UNCHANGED <<isRunning, isInitialized, isGenerating, readyHourData,
                 currentTime, hourCounter, simulationHour, previousTraffic,
                 calls, lastResponse, everStopped, stopped, published,
                 startsCompleted, advanceHours, lastPush>>

\* one CitySimulation configured with a sink whose token endpoint accepts the
\* credentials at some times and rejects them at others, under every
\* interleaving of its API calls, its pushes and its retry timers
InitReauth ==
  /\ InitSim /\ InitEv /\ InitTr
  /\ now = currentTime
  /\ env = [foundryConfig |-> TRUE, foundryAuth |-> TRUE, weatherData |-> TRUE,
            datazonesFile |-> TRUE, eventsFile |-> TRUE]
NextReauth ==
  \/ start /\ UNCHANGED <<procVars, srvVars, sinkVars, secondsPerHour, weatherOut, evVars, trVars>>
  \/ stop /\ UNCHANGED <<procVars, srvVars, sinkVars, secondsPerHour, weatherOut, evVars, trVars>>
  \/ getDataAndAdvance /\ UNCHANGED <<procVars, srvVars, sinkVars, secondsPerHour, weatherOut, evVars, trVars>>
  \/ \E c \in CallIds : startAfterTraffic(c) /\ UNCHANGED <<procVars, srvVars, sinkVars, secondsPerHour, weatherOut, evVars, trVars>>
  \/ \E c \in CallIds : startAfterEvents(c) /\ UNCHANGED <<procVars, srvVars, sinkVars, secondsPerHour, weatherOut, evVars, trVars>>
  \/ \E c \in CallIds : startAfterWeather(c) /\ UNCHANGED <<procVars, srvVars, sinkVars, secondsPerHour, weatherOut, evVars, trVars>>
  \/ \E c \in CallIds : startAfterFoundry(c) /\ UNCHANGED <<procVars, srvVars, secondsPerHour, weatherOut, evVars, trVars>>
  \/ \E c \in CallIds : startFinish(c) /\ UNCHANGED <<procVars, srvVars, sinkVars, secondsPerHour, weatherOut, evVars, trVars>>
  \/ \E c \in CallIds : startGenerateThrew(c) /\ UNCHANGED <<procVars, srvVars, sinkVars, secondsPerHour, weatherOut, evVars, trVars>>
  \/ \E c \in CallIds : generateAfterWeather(c) /\ UNCHANGED <<procVars, srvVars, sinkVars, secondsPerHour, weatherOut, evVars, trVars>>
  \/ \E c \in CallIds : generateAfterTraffic(c) /\ UNCHANGED <<procVars, srvVars, sinkVars, secondsPerHour, weatherOut, evVars, trVars>>
  \/ \E c \in CallIds : generateTrafficThrew(c) /\ UNCHANGED <<procVars, srvVars, sinkVars, secondsPerHour, weatherOut, evVars, trVars>>
  \/ \E c \in CallIds : generateAfterPush(c) /\ UNCHANGED <<procVars, srvVars, secondsPerHour, weatherOut, evVars, trVars>>
  \/ retryTimerFires /\ UNCHANGED <<procVars, srvVars, secondsPerHour, weatherOut, evVars, trVars>>
  \/ retryCallResolves /\ UNCHANGED <<procVars, srvVars, secondsPerHour, weatherOut, evVars, trVars>>
  \/ tokenEndpointChanges /\ UNCHANGED <<procVars, srvVars, sinkVars, secondsPerHour, weatherOut, evVars, trVars>>
SpecReauth == InitReauth /\ [][NextReauth]_vars

\* one CitySimulation without a sink whose pacing is changed while it runs
InitPacing ==
  /\ InitSim /\ InitEv /\ InitTr
  /\ now = currentTime
  /\ env = [foundryConfig |-> FALSE, foundryAuth |-> FALSE, weatherData |-> TRUE,
            datazonesFile |-> TRUE, eventsFile |-> TRUE]
NextPacing ==
  \/ start /\ UNCHANGED <<procVars, srvVars, sinkVars, secondsPerHour, weatherOut, evVars, trVars>>
  \/ stop /\ UNCHANGED <<procVars, srvVars, sinkVars, secondsPerHour, weatherOut, evVars, trVars>>
  \/ getSnapshot /\ UNCHANGED <<procVars, srvVars, sinkVars, secondsPerHour, weatherOut, evVars, trVars>>
  \/ getDataAndAdvance /\ UNCHANGED <<procVars, srvVars, sinkVars, secondsPerHour, weatherOut, evVars, trVars>>
  \/ \E c \in CallIds : startAfterTraffic(c) /\ UNCHANGED <<procVars, srvVars, sinkVars, secondsPerHour, weatherOut, evVars, trVars>>
  \/ \E c \in CallIds : startAfterEvents(c) /\ UNCHANGED <<procVars, srvVars, sinkVars, secondsPerHour, weatherOut, evVars, trVars>>
  \/ \E c \in CallIds : startAfterWeather(c) /\ UNCHANGED <<procVars, srvVars, sinkVars, secondsPerHour, weatherOut, evVars, trVars>>
  \/ \E c \in CallIds : startFinish(c) /\ UNCHANGED <<procVars, srvVars, sinkVars, secondsPerHour, weatherOut, evVars, trVars>>
  \/ \E c \in CallIds : startGenerateThrew(c) /\ UNCHANGED <<procVars, srvVars, sinkVars, secondsPerHour, weatherOut, evVars, trVars>>
  \/ \E c \in CallIds : generateAfterWeather(c) /\ UNCHANGED <<procVars, srvVars, sinkVars, secondsPerHour, weatherOut, evVars, trVars>>
  \/ \E c \in CallIds : generateAfterTraffic(c) /\ UNCHANGED <<procVars, srvVars, sinkVars, secondsPerHour, weatherOut, evVars, trVars>>
  \/ \E c \in CallIds : generateTrafficThrew(c) /\ UNCHANGED <<procVars, srvVars, sinkVars, secondsPerHour, weatherOut, evVars, trVars>>
  \/ \E seconds \in PacingValues : updateTimeCompression(seconds) /\ UNCHANGED <<procVars, srvVars, evVars, trVars, weatherOut>>
SpecPacing == InitPacing /\ [][NextPacing]_vars

\* one EventsManager driven tick by tick
InitEvents ==
  /\ InitEv /\ InitTr /\ InitSim
  /\ env = [foundryConfig |-> FALSE, foundryAuth |-> FALSE, weatherData |-> TRUE,
            datazonesFile |-> TRUE, eventsFile |-> TRUE]
  /\ currentTime = now
NextEvents ==
  \/ evInitialize /\ UNCHANGED <<procVars, srvVars, simVars, sinkVars, secondsPerHour, weatherOut, trVars>>
  \/ evTick /\ UNCHANGED <<procVars, srvVars, simVars, sinkVars, secondsPerHour, weatherOut, trVars>>
SpecEvents == InitEvents /\ [][NextEvents]_vars

\* an EventsManager that has been running for days: n events have completed
\* and are retained, and the last forced generation has scheduled new ones
pastEvent(i) ==
  LET e == generateRandomEvent(newEventsManager, AddHours(0, 10), d0).scheduledEvents[1]
  IN completeEvent(activateEvent([e EXCEPT !.id = i], e.scheduled_start_time))
longRunManager(n, ds) ==
  generateMoreEvents([newEventsManager EXCEPT
                        !.completedEvents = [i \in 1..n |-> pastEvent(i)],
                        !.eventIdCounter = n + 1],
                     AddHours(0, 3 * HoursPerDay + 10), ds)
RetentionStart == AddHours(0, 4 * HoursPerDay + 22)
RetentionFill == (maxCompletedEventsToKeep - 2)..maxCompletedEventsToKeep

\* one EventsManager near its retention cap driven tick by tick
InitRetention ==
  /\ InitSim /\ InitTr
  /\ env = [foundryConfig |-> FALSE, foundryAuth |-> FALSE, weatherData |-> TRUE,
            datazonesFile |-> TRUE, eventsFile |-> TRUE]
  /\ currentTime = AddHours(0, 22)
  /\ now = RetentionStart
  /\ \E n \in RetentionFill : \E ds \in SeqsOf(Draws, 2) : em = longRunManager(n, ds)
  /\ evHourCounter = 0
  /\ evGenerated = 0
  /\ evPhase = "running"
  /\ evView = getAllEventsWithStatus(em, now)
NextRetention ==
  \/ evTick /\ UNCHANGED <<procVars, srvVars, simVars, sinkVars, secondsPerHour, weatherOut, trVars>>
SpecRetention == InitRetention /\ [][NextRetention]_vars

\* one TrafficSimulator driven tick by tick
NextTraffic ==
  \/ trInitialize /\ UNCHANGED <<procVars, srvVars, simVars, sinkVars, secondsPerHour, weatherOut, evVars>>
  \/ trTick /\ UNCHANGED <<procVars, srvVars, simVars, sinkVars, secondsPerHour, weatherOut, evVars>>
InitTraffic == InitEvents /\ now = AddHours(0, 22)
SpecTraffic == InitTraffic /\ [][NextTraffic]_vars

\* the engines of one instance after start() has initialised them, driven
\* tick by tick; the initial batch of events is one of CityInitialDraws
dConcert == [tpl |-> 2, hoursInFuture |-> minHoursInFuture]
CityInitialDraws == {<<d0, d0, dConcert>>, <<dConcert, d0, dConcert, d0>>,
                     <<d0, d0, d0, d0, d0>>}
InitCity ==
  /\ InitSim
  /\ env = [foundryConfig |-> FALSE, foundryAuth |-> FALSE, weatherData |-> TRUE,
            datazonesFile |-> TRUE, eventsFile |-> TRUE]
  /\ now \in InitTimes
  /\ currentTime = now
  /\ \E ds \in CityInitialDraws : em = generateInitialEvents(newEventsManager, now, ds)
  /\ evHourCounter = 0
  /\ evGenerated = 0
  /\ evPhase = "running"
  /\ evView = NULL
  /\ \E rv \in SeqsOf(RandomVariations, Len(datazoneData)) :
       datazones = initializeWithDatazones(datazoneData, rv)
  /\ trafficOut = NULL
  /\ trafficTicks = 0
NextCity ==
  \/ cityTick /\ UNCHANGED <<procVars, srvVars, simVars, sinkVars, secondsPerHour>>
SpecCity == InitCity /\ [][NextCity]_vars

\* a tick is taken: cityTick is enabled exactly when its three guards hold,
\* and the steps of NextCity that raise evHourCounter are its steps
tickTaken ==
  /\ evPhase = "running"
  /\ datazones # <<>>
  /\ evHourCounter < MaxTicks
  /\ evHourCounter' = evHourCounter + 1

\* the same engines when the client keeps asking for the next hour: a tick
\* that can be taken is eventually taken
SpecCityLive == InitCity /\ [][NextCity]_vars /\ WF_evHourCounter(tickTaken)

\* one WeatherSimulator asked for samples
NextWeather ==
  \/ weatherTick /\ UNCHANGED <<procVars, srvVars>>
SpecWeather == Init /\ [][NextWeather]_vars

\* the instances of one city in one process, started, stopped and started
\* again in every order
NextLoaders ==
  \/ \E i \in InstanceIds : instanceStart(i) /\ UNCHANGED <<simVars, sinkVars, secondsPerHour, evVars, trVars, weatherOut, srvVars>>
  \/ \E i \in InstanceIds : loadCityDatazones(i) /\ UNCHANGED <<simVars, sinkVars, secondsPerHour, evVars, trVars, weatherOut, srvVars>>
  \/ \E i \in InstanceIds : loadCityEvents(i) /\ UNCHANGED <<simVars, sinkVars, secondsPerHour, evVars, trVars, weatherOut, srvVars>>
  \/ \E i \in InstanceIds : weatherSimInitialize(i) /\ UNCHANGED <<simVars, sinkVars, secondsPerHour, evVars, trVars, weatherOut, srvVars>>
  \/ \E i \in InstanceIds : instanceStop(i) /\ UNCHANGED <<simVars, sinkVars, secondsPerHour, evVars, trVars, weatherOut, srvVars>>
SpecLoaders == InitEvents /\ [][NextLoaders]_vars

\* the server with one simulation started through its endpoint and no sink
\* configured, its clients polling the data endpoint
InitServer ==
  /\ InitSim /\ InitEv /\ InitTr
  /\ now = currentTime
  /\ ~env.foundryConfig
\* the steps of the instance's start() after its awaits
startContinues ==
  /\ processUp
  /\ \E c \in CallIds :
       \/ startAfterTraffic(c) \/ startAfterEvents(c) \/ startAfterWeather(c)
       \/ generateAfterWeather(c) \/ generateAfterTraffic(c)
       \/ generateTrafficThrew(c) \/ startFinish(c) \/ startGenerateThrew(c)
NextServer ==
  \/ postStart /\ UNCHANGED <<sinkVars, secondsPerHour, evVars, trVars, weatherOut, procVars>>
  \/ getData /\ UNCHANGED <<sinkVars, secondsPerHour, evVars, trVars, weatherOut, procVars>>
  \/ postStop /\ UNCHANGED <<sinkVars, secondsPerHour, evVars, trVars, weatherOut, procVars>>
  \/ unhandledRejectionExits /\ UNCHANGED <<sinkVars, secondsPerHour, evVars, trVars, weatherOut, procVars>>
  \/ processUp /\ (\E c \in CallIds : startAfterTraffic(c)) /\ UNCHANGED <<sinkVars, secondsPerHour, evVars, trVars, weatherOut, procVars, srvVars>>
  \/ processUp /\ (\E c \in CallIds : startAfterEvents(c)) /\ UNCHANGED <<sinkVars, secondsPerHour, evVars, trVars, weatherOut, procVars, srvVars>>
  \/ processUp /\ (\E c \in CallIds : startAfterWeather(c)) /\ UNCHANGED <<sinkVars, secondsPerHour, evVars, trVars, weatherOut, procVars, srvVars>>
  \/ processUp /\ (\E c \in CallIds : generateAfterWeather(c)) /\ UNCHANGED <<sinkVars, secondsPerHour, evVars, trVars, weatherOut, procVars, srvVars>>
  \/ processUp /\ (\E c \in CallIds : generateAfterTraffic(c)) /\ UNCHANGED <<sinkVars, secondsPerHour, evVars, trVars, weatherOut, procVars, srvVars>>
  \/ processUp /\ (\E c \in CallIds : generateTrafficThrew(c)) /\ UNCHANGED <<sinkVars, secondsPerHour, evVars, trVars, weatherOut, procVars, srvVars>>
  \/ processUp /\ (\E c \in CallIds : startFinish(c)) /\ UNCHANGED <<sinkVars, secondsPerHour, evVars, trVars, weatherOut, procVars, srvVars>>
  \/ processUp /\ (\E c \in CallIds : startGenerateThrew(c)) /\ UNCHANGED <<sinkVars, secondsPerHour, evVars, trVars, weatherOut, procVars, srvVars>>
\* every suspended await of start() resumes, and the client keeps polling
SpecServer ==
  /\ InitServer /\ [][NextServer]_vars
  /\ WF_vars(startContinues /\ UNCHANGED <<sinkVars, secondsPerHour, evVars, trVars, weatherOut, procVars, srvVars>>)
  /\ WF_vars(getData /\ UNCHANGED <<sinkVars, secondsPerHour, evVars, trVars, weatherOut, procVars>>)

(***************************************************************************)
(* Claims                                                                  *)
(***************************************************************************)

\* C1: at most one tick computation (a call of generateNextHourData past its
\* guard) is in progress at any time, under every interleaving of advance()
\* calls with an in-flight tick.
C1_SingleFlight == Cardinality(ticksInFlight) <= 1

\* an advance() that arrived while a tick was in flight and started none
C1_Witness ==
  /\ lastResponse.op = "advance"
  /\ lastResponse.status = "success"
  /\ ~lastResponse.startedTick
  /\ Cardinality(ticksInFlight) = 1

\* C2: after stop() has taken effect, and before any new start(), the ready
\* buffer is empty, also when a tick was in flight at the time of stop().
C2_StoppedBufferEmpty == stopped => readyHourData = NULL

\* C3: every generated event is scheduled to start at least minHoursInFuture
\* hours after the time it was generated at.
C3_StartAtLeastMinHoursAhead ==
  \A e \in Range(allEvents(em)) :
     e.scheduled_start_time >= AddHours(e.generated_at, minHoursInFuture)

Lifecycle == <<"scheduled", "active", "completed">>
IsPrefix(s, q) == Len(s) <= Len(q) /\ \A i \in 1..Len(s) : s[i] = q[i]

\* C4: the sequence of statuses every event has gone through is a prefix of
\* scheduled, active, completed (none reversed, none skipped), and the event's
\* status is the last one of it.
C4_StatusIsLifecyclePrefix ==
  \A e \in Range(allEvents(em)) :
     /\ IsPrefix(e.statusLog, Lifecycle)
     /\ e.status = e.statusLog[Len(e.statusLog)]

\* events in each of the three statuses, one of them completed after being active
C4_Witness ==
  /\ \E e \in Range(em.completedEvents) : e.statusLog = Lifecycle
  /\ em.activeEvents # <<>>
  /\ em.scheduledEvents # <<>>

\* C5: the number of active events never exceeds maxConcurrentEvents.
C5_ActiveAtMostMaxConcurrent == Len(em.activeEvents) <= maxConcurrentEvents

\* C6: no calendar day records more than maxEventsPerDay generated events,
\* initial, per-tick and forced generation counted.
C6_DailyCountAtMostMax ==
  \A k \in DOMAIN em.dailyEventCounts : em.dailyEventCounts[k] <= maxEventsPerDay

InRange(x) == minCongestion <= x /\ x <= maxCongestion

\* C7: after every traffic tick every zone's reported congestion and the city's
\* congestion_level lie in [0.1, 10.0].
C7_CongestionInRange ==
  trafficOut # NULL =>
    /\ InRange(trafficOut.congestion_level)
    /\ \A i \in 1..Len(trafficOut.datazones) :
         InRange(trafficOut.datazones[i].datazone_congestion)

\* a tick blended with the previous one in which a zone's value before the
\* clamp is above the range, and the reported one is the upper end
C7_Witness ==
  /\ trafficTicks > 1
  /\ \E i \in 1..Len(trafficOut.datazones) :
       /\ trafficOut.datazones[i].fresh > maxCongestion
       /\ trafficOut.datazones[i].datazone_congestion = maxCongestion

\* C8: getCurrentSnapshot() fails with the not-ready condition as long as no
\* tick has published a snapshot; and on an instance that was never stopped,
\* once a start() has returned it yields a snapshot with weather, events view
\* and traffic aggregate present.
C8_SnapshotReadiness ==
  /\ published = 0 => getCurrentSnapshot.status = "NotReady"
  /\ (startsCompleted > 0 /\ ~everStopped) =>
       /\ getCurrentSnapshot.status = "success"
       /\ getCurrentSnapshot.weather # NULL
       /\ getCurrentSnapshot.events # NULL
       /\ getCurrentSnapshot.traffic # NULL

\* getCurrentSnapshot() has returned a snapshot after start() completed
C8_Witness ==
  /\ startsCompleted > 0
  /\ ~everStopped
  /\ lastResponse.op = "getSnapshot"
  /\ lastResponse.status = "success"

\* C9: an instance whose running flag is true has a non-empty ready buffer,
\* also while start() is suspended at an await.
C9_RunningHasBuffer == isRunning => readyHourData # NULL

\* C10: once stop() has taken effect the instance is never running again.
C10_StoppedIsTerminal == everStopped => ~isRunning

viewTotal(view) == view.scheduled_count + view.active_count + view.completed_count

\* C13: from one returned events view to the next, scheduled_count +
\* active_count + completed_count never decreases, eviction at the retention
\* cap included.
C13_TotalCountNonDecreasing ==
  [][(evView # NULL /\ evView' # NULL) => viewTotal(evView') >= viewTotal(evView)]_vars

\* C14: from one returned events view to the next, completed_count never
\* decreases, also when the completed list is at the retention cap and
\* eviction runs.
C14_CompletedCountNonDecreasing ==
  [][(evView # NULL /\ evView' # NULL) =>
       evView'.completed_count >= evView.completed_count]_vars

\* the completed list is at the cap and its oldest events have been evicted
C14_Witness ==
  /\ evView # NULL
  /\ evView.completed_count = maxCompletedEventsToKeep
  /\ Len(em.completedEvents) = maxCompletedEventsToKeep
  /\ em.completedEvents[1].id > 1
  /\ \E i \in 1..Len(em.completedEvents) : em.completedEvents[i].id > maxCompletedEventsToKeep

\* C19: actual_start_time is set at activation and never changes; and
\* actual_end_time is unset while an event is scheduled or active, being set
\* at completion only.
C19_ActualTimesSetAtTransitions ==
  /\ \A e \in Range(em.scheduledEvents) :
       e.actual_start_time = NoDate /\ e.actual_end_time = NoDate
  /\ \A e \in Range(em.activeEvents) :
       e.actual_start_time # NoDate /\ e.actual_end_time = NoDate
  /\ \A e \in Range(em.completedEvents) :
       e.actual_start_time # NoDate /\ e.actual_end_time # NoDate

\* C11: an advance() that arrives while a tick computation is in flight
\* starts no new work: the clock (currentTime, hourCounter), previousTraffic,
\* the guard, the async calls and the ready buffer are unchanged, and the
\* response carries the content of the ready buffer.
C11_AdvanceInFlightStartsNothing ==
  [][(getDataAndAdvance /\ ticksInFlight # {} /\ lastResponse'.status = "success") =>
       /\ currentTime' = currentTime
       /\ hourCounter' = hourCounter
       /\ previousTraffic' = previousTraffic
       /\ isGenerating' = isGenerating
       /\ calls' = calls
       /\ readyHourData' = readyHourData
       /\ lastResponse'.timestamp = readyHourData.timestamp
       /\ lastResponse'.weather = readyHourData.weather
       /\ lastResponse'.events = readyHourData.events
       /\ lastResponse'.traffic = readyHourData.traffic]_vars

\* a second successful advance() answered from the buffer during a tick
C11_Witness ==
  /\ lastResponse.op = "advance"
  /\ lastResponse.status = "success"
  /\ ~lastResponse.startedTick
  /\ ticksInFlight # {}
  /\ readyHourData # NULL
  /\ lastResponse.timestamp = readyHourData.timestamp
  /\ advanceHours[1] # NoHour

\* C12: of two successive successful advance() calls on a running instance,
\* the second returns the hour of the first plus one (modulo the day).
C12_HourPlusOnePerAdvance ==
  advanceHours[1] # NoHour => advanceHours[2] = (advanceHours[1] + 1) % HoursPerDay

\* C15: with the topology and the catalog in place, a missing or unparseable
\* weather dataset never makes start() fail.
C15_StartSucceedsWithoutWeatherData ==
  (env.datazonesFile /\ env.eventsFile /\ ~env.weatherData) =>
     \A c \in CallIds :
        calls[c].kind = "start" => calls[c].pc \notin {"genThrew", "failed"}

\* C16: the step in which a background tick computation fails leaves the
\* ready buffer, the running flag and the initialized flag as they were, so
\* getSnapshot() answers as before.
C16_FailedTickKeepsBuffer ==
  [][\A c \in CallIds :
       (calls[c].kind = "tick" /\ calls[c].pc \in InTick /\ calls'[c].pc = "failed") =>
          /\ readyHourData' = readyHourData
          /\ isRunning' = isRunning
          /\ isInitialized' = isInitialized
          /\ getCurrentSnapshot' = getCurrentSnapshot]_vars

\* a background tick has failed on a running instance that still serves the
\* snapshot of the tick before
C16_Witness ==
  /\ \E c \in CallIds : calls[c].kind = "tick" /\ calls[c].pc = "failed"
  /\ ticksInFlight = {}
  /\ isRunning
  /\ ~everStopped
  /\ getCurrentSnapshot.status = "success"
  /\ getCurrentSnapshot.timestamp = readyHourData.timestamp
  /\ getCurrentSnapshot.timestamp < currentTime

C18_GuardFollowsTick == isGenerating <=> ticksInFlight # {}

\* a tick has failed and a later tick is in flight
C18_Witness ==
  /\ env.datazonesFile /\ env.eventsFile
  /\ \E c \in CallIds : calls[c].pc = "failed"
  /\ ticksInFlight # {}
  /\ hourCounter >= 2

\* C20: getSnapshot() on a stopped instance reports the not-running
\* condition, never the not-ready one.
C20_StoppedReportsNotRunning == stopped => getCurrentSnapshot.status = "NotRunning"

\* C21: once stop() has taken effect, and before any new start(), no timer
\* callback of the instance runs: no pending retry timer of
\* initializeFoundryConnection expires into a call.
C21_StopClearsTimers ==
  [][retryTimers' < retryTimers => ~stopped]_vars

\* a start() call suspended at a load that fails: the zone topology or the
\* event catalog cannot be read
loadFails(c) ==
  \/ calls[c].pc = "initTraffic" /\ ~env.datazonesFile
  \/ calls[c].pc = "initEvents" /\ ~env.eventsFile

\* C22: when the load of the zone topology or of the event catalog fails,
\* start() throws to its caller and leaves the instance not running, not
\* initialized and with an empty ready buffer.
C22_LoadFailureSurfaces ==
  [][\A c \in CallIds :
       (loadFails(c) /\ calls'[c] # calls[c]) =>
          /\ calls'[c].pc = "failed"
          /\ ~isRunning'
          /\ ~isInitialized'
          /\ readyHourData' = NULL]_vars

\* a start() has thrown for a missing catalog, after the topology was loaded
C22_Witness ==
  /\ env.datazonesFile /\ ~env.eventsFile
  /\ \E c \in CallIds : calls[c].kind = "start" /\ calls[c].pc = "failed"
  /\ ~isRunning /\ ~isInitialized /\ readyHourData = NULL

\* C23: a step that changes secondsPerHour (updateTimeCompression) changes
\* nothing else: it starts no tick and leaves the clock, hourCounter, the
\* ready buffer, the generation guard and the running and initialized flags
\* as they were.
C23_PacingChangesOnlyPacing ==
  [][secondsPerHour' # secondsPerHour => UNCHANGED <<simVars, sinkVars>>]_vars

\* the pacing of a running instance with a filled buffer and a tick in flight
\* has been changed
C23_Witness ==
  /\ secondsPerHour # defaultSecondsPerHour
  /\ isRunning /\ isInitialized /\ readyHourData # NULL
  /\ ticksInFlight # {}

\* the activation condition of the specification, at the tick of time t
activationDue(e, t) ==
  t >= e.scheduled_start_time /\ getHours(t) = e.start_hour

\* C24: every event that has been activated was activated at a tick whose time
\* had reached its scheduled_start_time and whose hour of day was its
\* start_hour; and after the processing of a tick no event for which both
\* hold at that tick is still scheduled.
C24_ActivatedExactlyWhenDue ==
  /\ \A e \in Range(em.activeEvents) \cup Range(em.completedEvents) :
        activationDue(e, e.actual_start_time)
  /\ evHourCounter > 0 =>
        \A e \in Range(em.scheduledEvents) : ~activationDue(e, now)

\* the tick just processed activated an event and left another one, whose
\* day has not come, scheduled
C24_Witness ==
  /\ evHourCounter > 0
  /\ \E e \in Range(em.activeEvents) : e.actual_start_time = now
  /\ \E e \in Range(em.scheduledEvents) :
        getHours(now) = e.start_hour /\ now < e.scheduled_start_time

\* C25: any two events of one EventsManager, however generated (initial batch,
\* per-tick generation or forced top-up), were generated at least
\* minimumEventGap hours apart.
C25_GenerationsMinimumGapApart ==
  \A e1, e2 \in Range(allEvents(em)) :
     e1.id < e2.id =>
        e2.generated_at - e1.generated_at >= minimumEventGap * HourUnits

idsOf(events) == {events[i].id : i \in DOMAIN events}

\* C26: after every processEventsForHour at most maxCompletedEventsToKeep
\* completed events are retained; an event is only evicted (it is in none of
\* the manager's lists any more) down to that cap; and every evicted event
\* completed no later than every retained one. Ticks follow each other hour
\* by hour and actual_end_time lies a whole number of hours after the tick of
\* activation, so an event completes at the tick of time actual_end_time.
C26_EvictionOldestFirstToCap ==
  [][\A before \in {allEvents(em)} :
     \A kept \in {idsOf(allEvents(em'))} :
     \A retained \in {em'.completedEvents} :
        /\ Len(retained) <= maxCompletedEventsToKeep
        /\ \A i \in DOMAIN before :
              \/ before[i].id \in kept
              \/ /\ Len(retained) = maxCompletedEventsToKeep
                 /\ \A j \in DOMAIN retained :
                       before[i].actual_end_time <= retained[j].actual_end_time]_vars

\* the tick just processed completed events, and older ones have made room
\* for them
C26_Witness ==
  /\ evHourCounter > 0
  /\ Len(em.completedEvents) = maxCompletedEventsToKeep
  /\ em.completedEvents[1].id > 1
  /\ em.completedEvents[Len(em.completedEvents)].actual_end_time = now
  /\ em.completedEvents[1].actual_end_time < now

\* C27: the traffic of a tick is computed for the tick's time, with the
\* weather of that time and with exactly the events that are active after the
\* tick's lifecycle processing: every zone's event multiplier and the city's
\* events_impact are those of the manager's active list after the tick.
C27_TrafficUsesEventsAfterLifecycle ==
  (evHourCounter > 0 /\ trafficOut # NULL) =>
     /\ trafficOut.simulation_time = now
     /\ weatherOut = simulationWeather(weatherDataset(now))
     /\ trafficOut.weather_impact = Round2(weatherMultiplierOf(weatherOut))
     /\ trafficOut.events_impact =
          Round2(calculateTrafficFactors(getHours(now), weatherOut,
                                         em.activeEvents).eventsMultiplier)
     /\ \A i \in DOMAIN trafficOut.datazones :
          trafficOut.datazones[i].zoneEventImpact =
            Max(1000, calculateZoneEventImpacts(em.activeEvents,
                                                trafficOut.datazones[i].datazone_code))

\* the tick just processed activated an event, and its primary zone carries
\* the event's impact in this tick's traffic
C27_Witness ==
  /\ evHourCounter > 0 /\ trafficOut # NULL
  /\ \E e \in Range(em.activeEvents) :
        /\ e.actual_start_time = now
        /\ \E i \in DOMAIN trafficOut.datazones :
              /\ trafficOut.datazones[i].datazone_code = e.affected_datazones[1]
              /\ trafficOut.datazones[i].zoneEventImpact > 1000

\* the impact of an event on the zone at index i (from 0) of its list as the
\* specification states it: 1 + impact_factor on the primary zone, a decayed
\* fraction of impact_factor on the others
statedImpactAt(event, i) ==
  IF i = 0
  THEN 1000 + event.impact_factor
  ELSE 1000 + Times(event.impact_factor, Max(300, 1000 - i * 100))

\* the impacts of the events that list the zone
statedImpactsOn(events, code) ==
  {statedImpactAt(events[n], i - 1) :
     <<n, i>> \in {p \in (DOMAIN events) \X (1..2) :
                     /\ p[2] \in DOMAIN events[p[1]].affected_datazones
                     /\ events[p[1]].affected_datazones[p[2]] = code}}

\* C28: in the traffic of every tick a zone's event multiplier is the maximum
\* over the active events listing the zone of the event's impact there
\* (1 + impact_factor on its primary zone, whatever impact_factor is, 0
\* included), and 1.0 for a zone that no active event lists.
C28_ZoneMultiplierIsMaxImpact ==
  (evHourCounter > 0 /\ trafficOut # NULL) =>
     \A i \in DOMAIN trafficOut.datazones :
        LET impacts == statedImpactsOn(em.activeEvents,
                                       trafficOut.datazones[i].datazone_code)
        IN /\ impacts = {} => trafficOut.datazones[i].zoneEventImpact = 1000
           /\ impacts # {} =>
                /\ trafficOut.datazones[i].zoneEventImpact \in impacts
                /\ \A x \in impacts : x <= trafficOut.datazones[i].zoneEventImpact

\* the fresh congestion of a zone as the specification states it, for the
\* tick's time t, a weather multiplier and the zone's event multiplier
statedCongestion(zone, t, weatherMultiplier, eventImpactMultiplier) ==
  LET isWeekend == getDay(t) = 0 \/ getDay(t) = 6
      areaMultiplier ==
        IF isWeekend
        THEN getWeekendMultiplierForArea(zone.area_type)
        ELSE getPeakMultiplierForArea(zone.area_type, zone.dominant_street_type)
  IN Times(Times(Times(zone.baseline_congestion,
                       Times(timeMultiplierAt(getHours(t)), areaMultiplier)),
                 weatherMultiplier),
           eventImpactMultiplier)

\* C29: on every tick, weekday or weekend, a zone's fresh congestion (before
\* momentum blending and clamping) is baseline x time-of-day multiplier x
\* (weekday peak multiplier | weekend area multiplier) x weather multiplier x
\* event impact multiplier.
C29_FreshCongestionIsStatedProduct ==
  trafficOut # NULL =>
     \E w \in Weathers :
        /\ Round2(weatherMultiplierOf(w)) = trafficOut.weather_impact
        /\ \A i \in DOMAIN trafficOut.datazones :
              trafficOut.datazones[i].fresh =
                statedCongestion(datazones[i], trafficOut.simulation_time,
                                 weatherMultiplierOf(w),
                                 trafficOut.datazones[i].zoneEventImpact)

CanonicalConditions == {"sunny", "partly_cloudy", "cloudy", "rainy", "snowy", "stormy"}

\* the keywords that occur in a condition string, case ignored
keywordsOf(str) == UNION {keywordsIn(lowerWord(str[i])) : i \in DOMAIN str}

\* C30: every condition string maps to one of the six canonical conditions by
\* the substring rules (rain, snow, storm/thunder, clear/sunny, cloud/overcast,
\* partly); a string that contains 'partly' and none of rain, snow, storm,
\* thunder, clear, sunny maps to partly_cloudy, and so does a string that
\* matches no rule.
C30_ConditionMapping ==
  weatherOut # NULL =>
     LET k == keywordsOf(weatherOut.raw_conditions)
         c == weatherOut.condition
     IN /\ c \in CanonicalConditions
        /\ "rain" \in k => c = "rainy"
        /\ (k \cap {"rain"} = {} /\ "snow" \in k) => c = "snowy"
        /\ (k \cap {"rain", "snow"} = {} /\ k \cap {"storm", "thunder"} # {}) =>
             c = "stormy"
        /\ (k \cap {"rain", "snow", "storm", "thunder"} = {}
              /\ k \cap {"clear", "sunny"} # {}) => c = "sunny"
        /\ (k \cap {"rain", "snow", "storm", "thunder", "clear", "sunny", "partly"} = {}
              /\ k \cap {"cloud", "overcast"} # {}) => c = "cloudy"
        /\ ("partly" \in k
              /\ k \cap {"rain", "snow", "storm", "thunder", "clear", "sunny"} = {}) =>
             c = "partly_cloudy"
        /\ k = {} => c = "partly_cloudy"

\* C31: in every events view a tick returns the three counts add up to the
\* length of the merged list, scheduled entries have hours_until_start >= 0
\* and null hours_remaining, active entries have hours_remaining >= 0 and
\* hours_until_start 0, completed entries have null hours_until_start and
\* hours_remaining 0.
C31_ViewCountsAndFields ==
  evView # NULL =>
    /\ evView.active_count + evView.scheduled_count + evView.completed_count
         = Len(evView.events)
    /\ \A i \in DOMAIN evView.events :
         LET v == evView.events[i] IN
           /\ v.status \in {"scheduled", "active", "completed"}
           /\ v.status = "scheduled" =>
                v.hours_until_start >= 0 /\ v.hours_remaining = NoDate
           /\ v.status = "active" =>
                v.hours_remaining >= 0 /\ v.hours_until_start = 0
           /\ v.status = "completed" =>
                v.hours_until_start = NoDate /\ v.hours_remaining = 0
C31_Witness ==
  /\ evView # NULL
  /\ \A st \in {"scheduled", "active", "completed"} :
       \E i \in DOMAIN evView.events : evView.events[i].status = st

\* C33: foundryRetryCount never exceeds maxFoundryRetries, and no more than
\* maxFoundryRetries re-authentication attempts are made by retry timers
\* without an accepted push in between.
C33_RetryBounded ==
  /\ foundryRetryCount <= maxFoundryRetries
  /\ retryAttempts <= maxFoundryRetries

\* C34: the hour of a payload returned by getSnapshot() or advance() equals
\* the hour stored in the ready-buffer snapshot whose data the payload returns.
C34_PayloadHourIsSnapshotHour ==
  [][(lastResponse' # lastResponse /\ lastResponse'.status = "success") =>
       lastResponse'.hour = readyHourData.hour]_vars

\* C35: every retained event is in exactly one of the three lists (no id
\* occurs twice in scheduled, active and completed together), its status names
\* the list it is in, and ids follow the order of creation: an event
\* generated earlier has the smaller id, the scheduled list is in the order
\* the events were pushed with ascending ids, and every id assigned so far is
\* below the counter the next event gets.
C35_OneListStatusAndIds ==
  \A all \in {allEvents(em)} : \A retained \in {Range(all)} :
    /\ Cardinality({e.id : e \in retained}) = Len(all)
    /\ \A e \in Range(em.scheduledEvents) : e.status = "scheduled"
    /\ \A e \in Range(em.activeEvents) : e.status = "active"
    /\ \A e \in Range(em.completedEvents) : e.status = "completed"
    /\ \A e \in retained : e.id < em.eventIdCounter
    /\ \A e1, e2 \in retained :
         e1.generated_at < e2.generated_at => e1.id < e2.id
    /\ \A i \in 1..(Len(em.scheduledEvents) - 1) :
         em.scheduledEvents[i].id < em.scheduledEvents[i + 1].id
\* events in all three lists, generated at different times (the initial batch
\* and a later tick or forced generation)
C35_Witness ==
  /\ em.scheduledEvents # <<>> /\ em.activeEvents # <<>> /\ em.completedEvents # <<>>
  /\ \E e1, e2 \in Range(allEvents(em)) : e1.generated_at < e2.generated_at

MaxEventId == 10        \* the ids a run of the composed ticks assigns
\* the time of the last tick of the run
horizonEnd == AddHours(now, MaxTicks - evHourCounter)
\* the event with this id is retained and the run goes on for an hour and the
\* event's duration after its scheduled start
completesInRun(id) ==
  \E e \in Range(allEvents(em)) :
     /\ e.id = id
     /\ AddHours(e.scheduled_start_time, 1 + e.duration_hours) <= horizonEnd
isCompleted(id) == \E e \in Range(em.completedEvents) : e.id = id

\* C36: under repeated one-hour ticks every generated event eventually is
\* completed (every one the run is long enough for); an event is activated at
\* the first tick at or after scheduled_start_time whose hour is start_hour,
\* less than 24 hours after scheduled_start_time, so no event stays scheduled
\* at such a tick; and it is completed at the tick duration_hours hours after
\* its activation, neither earlier nor later.
C36_EveryEventCompletes ==
  /\ \A id \in 1..MaxEventId : completesInRun(id) ~> isCompleted(id)
  /\ [](\A e \in Range(allEvents(em)) : e.id <= MaxEventId)
  /\ [](evHourCounter > 0 =>
         /\ \A e \in Range(em.scheduledEvents) :
              ~(now >= e.scheduled_start_time /\ getHours(now) = e.start_hour)
         /\ \A e \in Range(em.activeEvents) \cup Range(em.completedEvents) :
              /\ getHours(e.actual_start_time) = e.start_hour
              /\ e.actual_start_time >= e.scheduled_start_time
              /\ e.actual_start_time < AddHours(e.scheduled_start_time, 24)
              /\ e.actual_end_time = AddHours(e.actual_start_time, e.duration_hours)
         /\ \A e \in Range(em.activeEvents) : now < e.actual_end_time
         /\ \A e \in Range(em.completedEvents) : now >= e.actual_end_time)
\* the tick that completes an event, duration_hours ticks after the tick that
\* activated it later than its scheduled start, while another event waits
C36_Witness ==
  /\ \E e \in Range(em.completedEvents) :
       /\ e.statusLog = Lifecycle
       /\ now = e.actual_end_time
       /\ e.actual_start_time > e.scheduled_start_time
  /\ em.scheduledEvents # <<>>

\* C37: whenever a running, initialized instance has no tick in flight, the
\* snapshot in the ready buffer carries the instance clock (currentTime) as
\* its timestamp and hourCounter is the number of snapshots published so far.
C37_BufferFollowsClock ==
  (isRunning /\ isInitialized /\ ~isGenerating /\ readyHourData # NULL) =>
     /\ readyHourData.timestamp = currentTime
     /\ hourCounter = published

\* C38: in every reachable state an initialized instance is running and has a
\* non-empty ready buffer, also when stop() ran while start() was suspended.
C38_InitializedIsRunningWithBuffer ==
  isInitialized => (isRunning /\ readyHourData # NULL)

\* C32: over all the instances started for a city in one process each of the
\* three static data sets is loaded from its file at most once, and a cache
\* holds a data set only after a load of it succeeded.
C32_StaticDataLoadedOnce ==
  /\ fileLoads.datazones <= 1
  /\ fileLoads.events <= 1
  /\ fileLoads.weather <= 1
  /\ cityDataCache <=> fileLoads.datazones = 1
  /\ cityEventsCache <=> fileLoads.events = 1

\* C39: once the start endpoint has registered an instance, polling the data
\* endpoint eventually is answered with a snapshot, or the instance is no
\* longer in the registry; "starting" is not answered forever.
C39_StartingNotForever ==
  (SimId \in activeSimulations) ~> (dataResponse = 200 \/ SimId \notin activeSimulations)

====
